---- MODULE Spec2Model ----
(***************************************************************************)
(* Model of the realtime multimodal analysis pipeline: the bounded frame   *)
(* buffers (stream/frame_buffer.py), the PCM chunker                       *)
(* (audio/audio_frame_adapter.py), the overlap buffer                      *)
(* (audio/emotion_buffer.py) and the speech-to-text pipeline               *)
(* (audio/transcription_pipeline.py, audio/streaming_stt_orchestrator.py,  *)
(* audio/google_stt.py).                                                   *)
(*                                                                         *)
(* The components are independent objects, so each has its own next-state  *)
(* relation and specification over the one set of variables; a component's *)
(* actions leave the other components' variables unchanged.                *)
(***************************************************************************)
EXTENDS Integers, Sequences, FiniteSets, TLC

(***************************************************************************)
(* Bounds of the model.                                                    *)
(***************************************************************************)
\* number of VideoBuffer.put calls explored
MaxVideoPuts == 5
\* number of AudioBufferBroadcast.put calls explored
MaxAudioPuts == 4
\* maxsize the audio buffers are constructed with (the default is 1024)
AudioCap == 2
\* longest audio frame, in duration units (samples / sample_rate)
MaxFrameDur == 2
\* last instant of the clock, in the same units
MaxTime == 5
\* largest timeout and largest retrieve duration passed to get_many
MaxTimeout == 2
MaxRetrieve == 3
\* the PcmChunker under study: sample_rate and frame_ms it is constructed
\* with (the defaults are 16000 and 20), the number of pushes and the longest
\* byte string pushed
ChunkerSampleRate == 1000
ChunkerFrameMs == 1
MaxPushes == 3
MaxPushLen == 3
\* the AudioOverlapBuffer under study: max_chunks (the orchestrator's default
\* is 1000 // 20 = 50), the number of pushes and of get_overlap calls
OverlapChunks == 2
MaxOverlapPushes == 6
MaxSnapshots == 3
\* the speech-to-text pipeline: chunks fed, clock advances
\* and calls of close explored
MaxChunks == 4
MaxTicks == 3
MaxCloses == 1
\* the capacity the queue of a recognizer session is measured against
SessionQueueCap == 3
\* VideoObserverTrack: frames received, predictions of one inference, and
\* events of the audio handlers
MaxObsFrames == 2
MaxPreds == 2
MaxAudioEvents == 1
\* calls of send_json, and frames ingested by a session
MaxEmits == 3
MaxIngest == 4
\* SessionRegistry: sessions created, and calls of close
MaxSessions == 2
MaxRegCloses == 2
MaxSubEmits == 5
MaxVpFrames == 2
MaxDets == 3
MaxTeCount == 2
MaxLpFrames == 2
MaxLpTurns == 3
MaxEwWindows == 2
FsInterval == 2
MaxFsTime == 4
MaxFsCalls == 4
MaxClCalls == 1
EbSampleRate == 2
MaxEbPushes == 4
MaxEbPushLen == 6
MaxLaterGets == 1
MaxGsPushes == 3
MaxHtTracks == 3
MaxCxItems == 4

(***************************************************************************)
(* Program constants.                                                      *)
(***************************************************************************)
\* config/constants.py:40
FRAME_BUFFER_MAX_SIZE == 1
\* audio/streaming_stt_orchestrator.py:34 (seconds)
max_stream_duration == 240
\* config/constants.py:61, the default of STT_MAX_DURATION_SEC
STT_MAX_DURATION_SEC_DEFAULT == 240

VARIABLES
    \* ---- VideoBuffer (stream/frame_buffer.py:160-192)
    vq,              \* VideoBuffer._queue, oldest first
    dropped_count,   \* VideoBuffer.dropped_count
    v_puts,          \* history: number of put calls so far
    v_discards,      \* history: number of puts that discarded a resident frame
    v_got,           \* history: frames returned by get, in order
    v_ret            \* history: value returned by the last put

videoVars == <<vq, dropped_count, v_puts, v_discards, v_got, v_ret>>

VARIABLES
    \* ---- audio buffers and their broadcast (stream/frame_buffer.py:57-158)
    aq,              \* buffer -> BaseAudioBuffer._queue, oldest first
    a_duration,      \* buffer -> BaseAudioBuffer.duration
    a_puts,          \* history: number of frames offered so far
    a_bcast,         \* history: AudioFrames passed to AudioBufferBroadcast.put
    a_recv,          \* history: buffer -> frames appended to its queue
    a_gets,          \* history: buffer -> frames taken by get
    a_ret,           \* history: buffer -> value returned by its last put
    bc_ret           \* history: outcome of the last AudioBufferBroadcast.put

audioVars == <<aq, a_duration, a_puts, a_bcast, a_recv, a_gets, a_ret, bc_ret>>

VARIABLES
    \* ---- one consumer inside BaseAudioBuffer.get_many
    now,             \* time.time(), in duration units
    gm_pc,           \* "idle", "loop" (at the while test), "wait" (in wait_for), "done"
    gm_rd,           \* retrive_duration
    gm_timeout,      \* timeout
    gm_start,        \* history: the instant of the call
    gm_expiration,   \* timeout_expiration
    gm_deadline,     \* the instant the pending wait_for times out
    gm_items,        \* items
    gm_acc,          \* accumulated_duration
    gm_returned_at   \* history: the instant get_many returned

getManyVars == <<now, gm_pc, gm_rd, gm_timeout, gm_start, gm_expiration,
                 gm_deadline, gm_items, gm_acc, gm_returned_at>>

VARIABLES
    \* ---- PcmChunker (audio/audio_frame_adapter.py:24-45)
    ch_buffer,       \* PcmChunker.buffer
    ch_in,           \* history: all bytes pushed, in order
    ch_out,          \* history: all chunks returned, in order
    ch_pushes        \* history: number of push calls

chunkerVars == <<ch_buffer, ch_in, ch_out, ch_pushes>>

VARIABLES
    \* ---- AudioOverlapBuffer (audio/emotion_buffer.py:33-42)
    ob_buffer,       \* AudioOverlapBuffer.buffer (a deque with maxlen)
    ob_pushed,       \* history: all chunks pushed, in order
    ob_snaps         \* the lists get_overlap returned, with the number of
                     \* pushes that preceded each call

overlapVars == <<ob_buffer, ob_pushed, ob_snaps>>

VARIABLES
    \* ---- RealtimeTranscriptionPipeline, StreamingSttOrchestrator and the
    \* ---- GoogleStreamingSttSession objects it creates
    session_active,    \* RealtimeTranscriptionPipeline._session_active
    overlap_buffer,    \* StreamingSttOrchestrator.overlap_buffer.buffer
    sessions,          \* every session created, in order of creation
    current_session,   \* index in sessions of current_session, 0 for None
    session_start_ts,  \* StreamingSttOrchestrator.session_start_ts, 0 for None
    s_clock,           \* time.time(), in seconds
    s_ticks,           \* history: number of clock advances
    s_vad,             \* history: VadDetector.is_speech of every chunk seen
    s_closes,          \* history: number of calls of close
    s_hist             \* history: for every chunk seen, the current session
                       \* when the chunk reached the pipeline, the values of
                       \* STT_MAX_DURATION_SEC its age had reached, and the
                       \* overlap buffer

sttVars == <<session_active, overlap_buffer, sessions, current_session,
             session_start_ts, s_clock, s_ticks, s_vad, s_closes, s_hist>>

VARIABLES
    \* ---- the observer tracks and the Session they share
    o_channel,      \* Session.data_channel: "none" for None, else the
                    \* readyState of the attached channel
    o_http_up,      \* whether the event-forward endpoint accepts a POST
    o_frame_index,  \* VideoObserverTrack._frame_index
    o_jobs,         \* the _run_yolo calls handed to the executor
    o_events,       \* history: every event built, in the order in which the
                    \* threads dispatched them, with what each sink did
    o_audio         \* history: number of transcript and emotion events

observerVars == <<o_channel, o_http_up, o_frame_index, o_jobs, o_events,
                  o_audio>>

VARIABLES
    \* ---- WebRTCConnectionHandler and its data channel
    e_channel,      \* handler.data_channel: "none" for None, else the
                    \* readyState of the wrapped channel
    e_calls,        \* history: every call of send_json, with its outcome
    e_delivered     \* history: number of messages the channel took

emitVars == <<e_channel, e_calls, e_delivered>>

VARIABLES
    \* ---- StreamSession and the video ingest paths
    c_path,                 \* the ingest path of the session, "none"
                            \* before its first frame
    c_queue,                \* VideoBuffer._queue
    c_buffer_dropped,       \* VideoBuffer.dropped_count
    c_frame,                \* the frame the processor holds, None if none
    c_ingested,             \* history: number of frames ingested
    total_received,         \* StreamSession.total_received
    frame_count,            \* StreamSession.frame_count
    session_dropped_count,  \* StreamSession.dropped_count
    detection_count         \* StreamSession.detection_count

countersVars == <<c_path, c_queue, c_buffer_dropped, c_frame, c_ingested,
                  total_received, frame_count, session_dropped_count,
                  detection_count>>

VARIABLES
    \* ---- SessionRegistry
    r_map,     \* SessionRegistry._sessions: for every id the index in r_all of
               \* its Session, 0 if the key is absent
    r_all,     \* every Session ever created, in order of creation
    r_closes   \* history: every call of SessionRegistry.close

registryVars == <<r_map, r_all, r_closes>>

VARIABLES
    \* ---- AudioProcessor and the two sub-processors it starts
    ap_task,      \* AudioProcessor._task: "none", "pending" (created, not
                  \* yet run), "done" or "cancelled"
    ap_stop,      \* AudioProcessor._stop
    ap_returned,  \* history: stop() of the AudioProcessor has returned
    ap_subs,      \* for "stt" and "emotion": the _task and _stop of the
                  \* sub-processor, task "none" while it does not exist
    ap_emits      \* history: every call of the emitter by a sub-processor

audioProcVars == <<ap_task, ap_stop, ap_returned, ap_subs, ap_emits>>

VARIABLES
    \* ---- VideoProcessor and the StreamSession it records into
    vp_task,     \* VideoProcessor._task: "none", "running", "done" (the
                 \* coroutine ended by an exception) or "cancelled"
    vp_stop,     \* VideoProcessor._stop
    vp_session,  \* frame_count and detection_count of the StreamSession
    vp_log       \* history: for every frame taken from the VideoBuffer, in
                 \* order, the frame, the index it got and the calls of the
                 \* emitter it caused

videoProcVars == <<vp_task, vp_stop, vp_session, vp_log>>

VARIABLES
    \* ---- WebRTCConnectionHandler at the end of a track
    te_channel,   \* handler.data_channel: "none" for None, else the
                  \* readyState of the channel the DataChannelWrapper wraps
    te_session,   \* the counters of handler.session
    te_tracked,   \* the peer connection is in peer_connections
    te_pc_closed, \* peer_connection.close() has been awaited
    te_sent,      \* history: the messages handed to send_json
    te_ended      \* history: the calls of _handle_track_ended

trackEndVars == <<te_channel, te_session, te_tracked, te_pc_closed, te_sent,
                  te_ended>>

VARIABLES
    \* ---- the loops of the speech-to-text and the emotion processor
    lp_put,      \* history: number of frames broadcast to the two buffers
    lp_q,        \* for "stt" and "emotion": the queue of its buffer
    lp_running,  \* for "stt" and "emotion": the loop has not ended
    lp_turns     \* history, for "stt" and "emotion": every turn of the loop,
                 \* with the batch get_many returned and the calls of
                 \* _process_window

audioLoopVars == <<lp_put, lp_q, lp_running, lp_turns>>

VARIABLES
    \* ---- the temporary files of the emotion windows
    ew_files,   \* the temporary WAV files that exist, each named by the
                \* window that made it and its prefix
    ew_calls    \* history: every call of _process_window_sync

emotionWindowVars == <<ew_files, ew_calls>>

VARIABLES
    \* ---- FrameSampler
    fs_clock,    \* time.time(), in ticks
    fs_last,     \* FrameSampler._last
    fs_pc,       \* for every thread: "idle", "read" (now is read, the test
                 \* not yet made) or "passed" (the test made and true, _last
                 \* not yet written)
    fs_now,      \* for every thread: the local now of its call
    fs_returns   \* history: every return of should_process

samplerVars == <<fs_clock, fs_last, fs_pc, fs_now, fs_returns>>

VARIABLES
    \* ---- canonical_label
    cl_calls   \* history: every call of canonical_label, with the label the
               \* argument was made from, how it was written, and the result

labelVars == <<cl_calls>>

VARIABLES
    \* ---- EmotionAudioBuffer
    eb_len,       \* len(EmotionAudioBuffer._buffer), in bytes
    eb_buffered,  \* EmotionAudioBuffer._buffered_sec, in half sample periods
    eb_pushes,    \* history: number of calls of push
    eb_windows    \* history: the center offset of every window push returned,
                  \* in half sample periods

emotionBufVars == <<eb_len, eb_buffered, eb_pushes, eb_windows>>

VARIABLES
    \* ---- GoogleStreamingSttSession, its caller threads and its worker
    gs_audio_queue,   \* GoogleStreamingSttSession.audio_queue
    gs_closed,        \* GoogleStreamingSttSession.closed
    gs_gen,           \* position of the worker thread in _audio_generator
    gs_push,          \* position of the pushing thread in push_audio
    gs_close,         \* position of the closing thread in close
    gs_calls,         \* history: number of calls of push_audio
    gs_put,           \* history: the chunks push_audio has put, in order
    gs_before_close,  \* history: the chunks put when close() was called
    gs_yielded        \* history: the chunks the generator has yielded

googleSessionVars == <<gs_audio_queue, gs_closed, gs_gen, gs_push, gs_close,
                       gs_calls, gs_put, gs_before_close, gs_yielded>>

VARIABLES
    \* ---- WebRTCConnectionHandler and the tracks of its connection
    ht_kind,       \* the kind of every track received so far, in arrival
                   \* order; track i started processor i
    ht_processor,  \* WebRTCConnectionHandler.processor: 0 for None, else the
                   \* number of the processor it refers to
    ht_running,    \* the processors started and not stopped
    ht_stopping,   \* track -> the processor whose stop() the ended handler of
                   \* the track is awaiting (0: none)
    ht_handled     \* the tracks whose ended handler has come back from stop()

handlerVars == <<ht_kind, ht_processor, ht_running, ht_stopping, ht_handled>>

VARIABLES
    \* ---- a processor task, its cancellation and the caller of stop()
    cx_kind,        \* the class of the processor: "video" or "audio"
    cx_pc,          \* where the task of BaseProcessor._task is suspended
    cx_stop,        \* BaseProcessor._stop
    cx_cancel,      \* Task.cancel() was called and CancelledError is still
                    \* to be thrown into the task
    cx_outcome,     \* how the task ended: returned, cancelled or raised
    cx_stop_pc,     \* position of the caller of stop()
    cx_items,       \* history: number of items the loop has taken
    cx_stopped_at,  \* history: where the task was when stop() was called
    cx_caught       \* history: the except clauses that caught CancelledError

cancelVars == <<cx_kind, cx_pc, cx_stop, cx_cancel, cx_outcome, cx_stop_pc,
                cx_items, cx_stopped_at, cx_caught>>

vars ==
    <<videoVars, audioVars, getManyVars, chunkerVars, overlapVars, sttVars,
      observerVars, emitVars, countersVars, registryVars, audioProcVars,
      videoProcVars, trackEndVars, audioLoopVars, emotionWindowVars,
      samplerVars, labelVars, emotionBufVars, googleSessionVars, handlerVars,
      cancelVars>>

\* the variables of the other components, which a component's actions leave
\* unchanged
notVideo ==
    <<audioVars, getManyVars, chunkerVars, overlapVars, sttVars, observerVars,
      emitVars, countersVars, registryVars, audioProcVars, videoProcVars,
      trackEndVars, audioLoopVars, emotionWindowVars, samplerVars, labelVars,
      emotionBufVars, googleSessionVars, handlerVars, cancelVars>>
notAudio ==
    <<videoVars, getManyVars, chunkerVars, overlapVars, sttVars, observerVars,
      emitVars, countersVars, registryVars, audioProcVars, videoProcVars,
      trackEndVars, audioLoopVars, emotionWindowVars, samplerVars, labelVars,
      emotionBufVars, googleSessionVars, handlerVars, cancelVars>>
notAudioGetMany ==
    <<videoVars, chunkerVars, overlapVars, sttVars, observerVars, emitVars,
      countersVars, registryVars, audioProcVars, videoProcVars, trackEndVars,
      audioLoopVars, emotionWindowVars, samplerVars, labelVars,
      emotionBufVars, googleSessionVars, handlerVars, cancelVars>>
notChunker ==
    <<videoVars, audioVars, getManyVars, overlapVars, sttVars, observerVars,
      emitVars, countersVars, registryVars, audioProcVars, videoProcVars,
      trackEndVars, audioLoopVars, emotionWindowVars, samplerVars, labelVars,
      emotionBufVars, googleSessionVars, handlerVars, cancelVars>>
notOverlap ==
    <<videoVars, audioVars, getManyVars, chunkerVars, sttVars, observerVars,
      emitVars, countersVars, registryVars, audioProcVars, videoProcVars,
      trackEndVars, audioLoopVars, emotionWindowVars, samplerVars, labelVars,
      emotionBufVars, googleSessionVars, handlerVars, cancelVars>>
notStt ==
    <<videoVars, audioVars, getManyVars, chunkerVars, overlapVars,
      observerVars, emitVars, countersVars, registryVars, audioProcVars,
      videoProcVars, trackEndVars, audioLoopVars, emotionWindowVars,
      samplerVars, labelVars, emotionBufVars, googleSessionVars, handlerVars,
      cancelVars>>
notObserver ==
    <<videoVars, audioVars, getManyVars, chunkerVars, overlapVars, sttVars,
      emitVars, countersVars, registryVars, audioProcVars, videoProcVars,
      trackEndVars, audioLoopVars, emotionWindowVars, samplerVars, labelVars,
      emotionBufVars, googleSessionVars, handlerVars, cancelVars>>
notEmit ==
    <<videoVars, audioVars, getManyVars, chunkerVars, overlapVars, sttVars,
      observerVars, countersVars, registryVars, audioProcVars, videoProcVars,
      trackEndVars, audioLoopVars, emotionWindowVars, samplerVars, labelVars,
      emotionBufVars, googleSessionVars, handlerVars, cancelVars>>
notCounters ==
    <<videoVars, audioVars, getManyVars, chunkerVars, overlapVars, sttVars,
      observerVars, emitVars, registryVars, audioProcVars, videoProcVars,
      trackEndVars, audioLoopVars, emotionWindowVars, samplerVars, labelVars,
      emotionBufVars, googleSessionVars, handlerVars, cancelVars>>
notRegistry ==
    <<videoVars, audioVars, getManyVars, chunkerVars, overlapVars, sttVars,
      observerVars, emitVars, countersVars, audioProcVars, videoProcVars,
      trackEndVars, audioLoopVars, emotionWindowVars, samplerVars, labelVars,
      emotionBufVars, googleSessionVars, handlerVars, cancelVars>>
notAudioProc ==
    <<videoVars, audioVars, getManyVars, chunkerVars, overlapVars, sttVars,
      observerVars, emitVars, countersVars, registryVars, videoProcVars,
      trackEndVars, audioLoopVars, emotionWindowVars, samplerVars, labelVars,
      emotionBufVars, googleSessionVars, handlerVars, cancelVars>>
notVideoProc ==
    <<videoVars, audioVars, getManyVars, chunkerVars, overlapVars, sttVars,
      observerVars, emitVars, countersVars, registryVars, audioProcVars,
      trackEndVars, audioLoopVars, emotionWindowVars, samplerVars, labelVars,
      emotionBufVars, googleSessionVars, handlerVars, cancelVars>>
notTrackEnd ==
    <<videoVars, audioVars, getManyVars, chunkerVars, overlapVars, sttVars,
      observerVars, emitVars, countersVars, registryVars, audioProcVars,
      videoProcVars, audioLoopVars, emotionWindowVars, samplerVars, labelVars,
      emotionBufVars, googleSessionVars, handlerVars, cancelVars>>
notAudioLoop ==
    <<videoVars, audioVars, getManyVars, chunkerVars, overlapVars, sttVars,
      observerVars, emitVars, countersVars, registryVars, audioProcVars,
      videoProcVars, trackEndVars, emotionWindowVars, samplerVars, labelVars,
      emotionBufVars, googleSessionVars, handlerVars, cancelVars>>
notEmotionWindow ==
    <<videoVars, audioVars, getManyVars, chunkerVars, overlapVars, sttVars,
      observerVars, emitVars, countersVars, registryVars, audioProcVars,
      videoProcVars, trackEndVars, audioLoopVars, samplerVars, labelVars,
      emotionBufVars, googleSessionVars, handlerVars, cancelVars>>
notSampler ==
    <<videoVars, audioVars, getManyVars, chunkerVars, overlapVars, sttVars,
      observerVars, emitVars, countersVars, registryVars, audioProcVars,
      videoProcVars, trackEndVars, audioLoopVars, emotionWindowVars,
      labelVars, emotionBufVars, googleSessionVars, handlerVars, cancelVars>>
notLabel ==
    <<videoVars, audioVars, getManyVars, chunkerVars, overlapVars, sttVars,
      observerVars, emitVars, countersVars, registryVars, audioProcVars,
      videoProcVars, trackEndVars, audioLoopVars, emotionWindowVars,
      samplerVars, emotionBufVars, googleSessionVars, handlerVars, cancelVars>>
notEmotionBuf ==
    <<videoVars, audioVars, getManyVars, chunkerVars, overlapVars, sttVars,
      observerVars, emitVars, countersVars, registryVars, audioProcVars,
      videoProcVars, trackEndVars, audioLoopVars, emotionWindowVars,
      samplerVars, labelVars, googleSessionVars, handlerVars, cancelVars>>
notGoogleSession ==
    <<videoVars, audioVars, getManyVars, chunkerVars, overlapVars, sttVars,
      observerVars, emitVars, countersVars, registryVars, audioProcVars,
      videoProcVars, trackEndVars, audioLoopVars, emotionWindowVars,
      samplerVars, labelVars, emotionBufVars, handlerVars, cancelVars>>
notHandler ==
    <<videoVars, audioVars, getManyVars, chunkerVars, overlapVars, sttVars,
      observerVars, emitVars, countersVars, registryVars, audioProcVars,
      videoProcVars, trackEndVars, audioLoopVars, emotionWindowVars,
      samplerVars, labelVars, emotionBufVars, googleSessionVars, cancelVars>>
notCancel ==
    <<videoVars, audioVars, getManyVars, chunkerVars, overlapVars, sttVars,
      observerVars, emitVars, countersVars, registryVars, audioProcVars,
      videoProcVars, trackEndVars, audioLoopVars, emotionWindowVars,
      samplerVars, labelVars, emotionBufVars, googleSessionVars, handlerVars>>

(***************************************************************************)
(* Frames.  A frame is an opaque handle; the model keeps its identity (the *)
(* arrival number), its Python type (isinstance checks read it) and, for   *)
(* an audio frame, its duration.                                           *)
(***************************************************************************)
None == [id |-> 0, kind |-> "none", dur |-> 0]

Frame(i, k, d) == [id |-> i, kind |-> k, dur |-> d]

\* Python truthiness of a put result: None is falsy, a frame object and a
\* non-empty bytes payload are truthy
Truthy(f) == f # None

Min(a, b) == IF a <= b THEN a ELSE b

Last(s) == s[Len(s)]

\* the last n elements of s
LastN(s, n) == SubSeq(s, Len(s) - n + 1, Len(s))

(***************************************************************************)
(* asyncio.Queue                                                           *)
(***************************************************************************)
\* asyncio.Queue.full(): a queue of maxsize <= 0 is never full
QueueFull(q, maxsize) == maxsize > 0 /\ Len(q) >= maxsize

(***************************************************************************)
(* BaseBuffer._put_with_drop_oldest (stream/frame_buffer.py:31-54).        *)
(* dc is self.dropped_count and hasDc is hasattr(self, "dropped_count").   *)
(* The queue has room after get_nowait, so `await queue.put` does not      *)
(* suspend and the helper is one atomic step of the event loop.            *)
(***************************************************************************)
PutKeepOldest(q, maxsize, frame, dc, hasDc) ==
    IF QueueFull(q, maxsize)
    THEN [queue |-> q, dropped |-> frame, dc |-> IF hasDc THEN dc + 1 ELSE dc]
    ELSE [queue |-> Append(q, frame), dropped |-> None, dc |-> dc]

PutNoDrop(q, maxsize, frame, dc, hasDc) ==
    [queue |-> Append(q, frame), dropped |-> None, dc |-> dc]

PutWithDropOldest(q, maxsize, frame, dc, hasDc) ==
    IF QueueFull(q, maxsize)
    THEN [queue   |-> Append(Tail(q), frame),
          dropped |-> Head(q),
          dc      |-> IF hasDc THEN dc + 1 ELSE dc]
    ELSE [queue |-> Append(q, frame), dropped |-> None, dc |-> dc]

(***************************************************************************)
(* VideoBuffer (stream/frame_buffer.py:160-192)                            *)
(***************************************************************************)
\* the frame types the two ingest paths put: av.VideoFrame (api/server.py:119)
\* and raw bytes (api/websocket.py:49)
VideoFrameKinds == {"video", "bytes"}

\* VideoBuffer.put, as a function of the state: the helper, then the
\* isinstance branch
VideoBufferPut(q, dc, frame) ==
    LET r == PutWithDropOldest(q, FRAME_BUFFER_MAX_SIZE, frame, dc, TRUE)
        isVf == Truthy(r.dropped) /\ r.dropped.kind = "video"
    IN  [queue |-> r.queue,
         dc    |-> IF isVf THEN r.dc + 1 ELSE r.dc,
         ret   |-> IF isVf THEN r.dropped ELSE None]

VideoInit ==
    /\ vq = <<>>
    /\ dropped_count = 0
    /\ v_puts = 0
    /\ v_discards = 0
    /\ v_got = <<>>
    /\ v_ret = None

VideoPut ==
    /\ v_puts < MaxVideoPuts
    /\ \E k \in VideoFrameKinds :
         LET r == VideoBufferPut(vq, dropped_count, Frame(v_puts + 1, k, 0))
         IN  /\ vq' = r.queue
             /\ dropped_count' = r.dc
             /\ v_ret' = r.ret
             /\ v_discards' = IF Len(vq) + 1 > Len(r.queue)
                              THEN v_discards + 1 ELSE v_discards
    /\ v_puts' = v_puts + 1
    /\ UNCHANGED <<v_got, notVideo>>

\* VideoBuffer.get: blocks until a frame is available
VideoGet ==
    /\ vq # <<>>
    /\ v_got' = Append(v_got, Head(vq))
    /\ vq' = Tail(vq)
    /\ UNCHANGED <<dropped_count, v_puts, v_discards, v_ret, notVideo>>

VideoNext == VideoPut \/ VideoGet

(***************************************************************************)
(* Audio buffers (stream/frame_buffer.py:57-158)                           *)
(***************************************************************************)
\* AudioBufferBroadcast.buffers, in list order
Buffers == <<"stt", "emo">>

BufferIds == {Buffers[i] : i \in 1..Len(Buffers)}

FrameDurs == 1..MaxFrameDur

\* BaseAudioBuffer.put(queue, frame) (stream/frame_buffer.py:67-75).  The
\* audio buffers define no dropped_count attribute.
BaseAudioBufferPut(q, duration, frame) ==
    LET r == PutWithDropOldest(q, AudioCap, frame, 0, FALSE)
        isAf == Truthy(r.dropped) /\ r.dropped.kind = "audio"
    IN  [queue    |-> r.queue,
         duration |-> IF isAf THEN duration + frame.dur - r.dropped.dur
                      ELSE duration + frame.dur,
         ret      |-> IF isAf THEN r.dropped ELSE None]

\* the loop of AudioBufferBroadcast.put (stream/frame_buffer.py:128-133),
\* from the i-th buffer on: st is the state of the buffers so far
RECURSIVE BroadcastLoop(_, _, _)
BroadcastLoop(i, st, frame) ==
    IF i > Len(Buffers)
    THEN [st EXCEPT !.result = "False"]
    ELSE LET b == Buffers[i]
             r == BaseAudioBufferPut(st.q[b], st.duration[b], frame)
             st2 == [st EXCEPT !.q[b] = r.queue,
                               !.duration[b] = r.duration,
                               !.recv[b] = Append(@, frame),
                               !.ret[b] = r.ret]
         IN  IF Truthy(r.ret)
             THEN [st2 EXCEPT !.result = "True"]
             ELSE BroadcastLoop(i + 1, st2, frame)

\* AudioBufferBroadcast.put (stream/frame_buffer.py:124-133)
BroadcastPut(st, frame) ==
    IF frame.kind # "audio"
    THEN [st EXCEPT !.result = "ValueError"]
    ELSE BroadcastLoop(1, st, frame)

AudioInit ==
    /\ aq = [b \in BufferIds |-> <<>>]
    /\ a_duration = [b \in BufferIds |-> 0]
    /\ a_puts = 0
    /\ a_bcast = <<>>
    /\ a_recv = [b \in BufferIds |-> <<>>]
    /\ a_gets = [b \in BufferIds |-> <<>>]
    /\ a_ret = [b \in BufferIds |-> None]
    /\ bc_ret = "none"

\* the transport hands a frame to AudioBufferBroadcast.put
AudioBroadcastPut ==
    /\ a_puts < MaxAudioPuts
    /\ \E k \in {"audio", "video"}, d \in FrameDurs :
         LET frame == Frame(a_puts + 1, k, d)
             st == [q |-> aq, duration |-> a_duration, recv |-> a_recv,
                    ret |-> a_ret, result |-> "none"]
             r == BroadcastPut(st, frame)
         IN  /\ aq' = r.q
             /\ a_duration' = r.duration
             /\ a_recv' = r.recv
             /\ a_ret' = r.ret
             /\ bc_ret' = r.result
             /\ a_bcast' = IF k = "audio" THEN Append(a_bcast, frame) ELSE a_bcast
    /\ a_puts' = a_puts + 1
    /\ UNCHANGED <<a_gets, notAudio>>

\* BaseAudioBuffer.get (stream/frame_buffer.py:105-106) by the consumer of b:
\* blocks until a frame is available; self.duration is left as it is
AudioGet(b) ==
    /\ aq[b] # <<>>
    /\ a_gets' = [a_gets EXCEPT ![b] = Append(@, Head(aq[b]))]
    /\ aq' = [aq EXCEPT ![b] = Tail(@)]
    /\ UNCHANGED <<a_duration, a_puts, a_bcast, a_recv, a_ret, bc_ret, notAudio>>

AudioNext == AudioBroadcastPut \/ \E b \in BufferIds : AudioGet(b)

(***************************************************************************)
(* BaseAudioBuffer.get_many (stream/frame_buffer.py:77-99), step by step,  *)
(* against a clock.  The computation between two suspension points takes   *)
(* no time; time passes only while the consumer is suspended in wait_for   *)
(* on an empty queue, or is outside the call.                              *)
(***************************************************************************)
\* the buffer whose consumer is followed
GmBuffer == "stt"

\* line 93: the timeout handed to asyncio.wait_for for one queue.get()
WaitForTimeout(timeout, expiration, t) == timeout

GetManyInit ==
    /\ now = 0
    /\ gm_pc = "idle"
    /\ gm_rd = 0
    /\ gm_timeout = 0
    /\ gm_start = 0
    /\ gm_expiration = 0
    /\ gm_deadline = 0
    /\ gm_items = <<>>
    /\ gm_acc = 0
    /\ gm_returned_at = 0

\* the producer puts a frame into the buffer (BaseAudioBuffer.put)
GmFrameArrive ==
    /\ a_puts < MaxAudioPuts
    /\ \E d \in FrameDurs :
         LET frame == Frame(a_puts + 1, "audio", d)
             r == BaseAudioBufferPut(aq[GmBuffer], a_duration[GmBuffer], frame)
         IN  /\ aq' = [aq EXCEPT ![GmBuffer] = r.queue]
             /\ a_duration' = [a_duration EXCEPT ![GmBuffer] = r.duration]
             /\ a_recv' = [a_recv EXCEPT ![GmBuffer] = Append(@, frame)]
             /\ a_ret' = [a_ret EXCEPT ![GmBuffer] = r.ret]
    /\ a_puts' = a_puts + 1
    /\ UNCHANGED <<a_bcast, a_gets, bc_ret, getManyVars, notAudioGetMany>>

\* lines 87-90: the call starts (one call is followed, from any instant and
\* any content of the buffer)
GmStart ==
    /\ gm_pc = "idle"
    /\ \E rd \in 1..MaxRetrieve, timeout \in 1..MaxTimeout :
         /\ gm_rd' = rd
         /\ gm_timeout' = timeout
         /\ gm_expiration' = now + timeout
    /\ gm_start' = now
    /\ gm_items' = <<>>
    /\ gm_acc' = 0
    /\ gm_pc' = "loop"
    /\ UNCHANGED <<now, gm_deadline, gm_returned_at, audioVars, notAudioGetMany>>

\* line 91 true, line 93: suspend in wait_for(self._queue.get(), timeout)
GmEnterWait ==
    /\ gm_pc = "loop"
    /\ gm_acc < gm_rd /\ now < gm_expiration
    /\ gm_deadline' = now + WaitForTimeout(gm_timeout, gm_expiration, now)
    /\ gm_pc' = "wait"
    /\ UNCHANGED <<now, gm_rd, gm_timeout, gm_start, gm_expiration, gm_items,
                   gm_acc, gm_returned_at, audioVars, notAudioGetMany>>

\* a queue.get() that delivers the newest frame of the queue
GmGotNewest ==
    /\ gm_pc = "wait"
    /\ aq[GmBuffer] # <<>>
    /\ LET q == aq[GmBuffer]
           frame == q[Len(q)]
       IN  /\ gm_items' = Append(gm_items, frame)
           /\ gm_acc' = gm_acc + frame.dur
           /\ a_gets' = [a_gets EXCEPT ![GmBuffer] = Append(@, frame)]
           /\ aq' = [aq EXCEPT ![GmBuffer] = SubSeq(q, 1, Len(q) - 1)]
    /\ gm_pc' = "loop"
    /\ UNCHANGED <<now, gm_rd, gm_timeout, gm_start, gm_expiration, gm_deadline,
                   gm_returned_at, a_duration, a_puts, a_bcast, a_recv, a_ret,
                   bc_ret, notAudioGetMany>>

\* lines 93-95: queue.get() delivers a frame
GmGot ==
    /\ gm_pc = "wait"
    /\ aq[GmBuffer] # <<>>
    /\ gm_items' = Append(gm_items, Head(aq[GmBuffer]))
    /\ gm_acc' = gm_acc + Head(aq[GmBuffer]).dur
    /\ a_gets' = [a_gets EXCEPT ![GmBuffer] = Append(@, Head(aq[GmBuffer]))]
    /\ aq' = [aq EXCEPT ![GmBuffer] = Tail(@)]
    /\ gm_pc' = "loop"
    /\ UNCHANGED <<now, gm_rd, gm_timeout, gm_start, gm_expiration, gm_deadline,
                   gm_returned_at, a_duration, a_puts, a_bcast, a_recv, a_ret,
                   bc_ret, notAudioGetMany>>

\* lines 96-99: wait_for raises TimeoutError, break, return items
GmTimeout ==
    /\ gm_pc = "wait"
    /\ now >= gm_deadline
    /\ gm_pc' = "done"
    /\ gm_returned_at' = now
    /\ UNCHANGED <<now, gm_rd, gm_timeout, gm_start, gm_expiration, gm_deadline,
                   gm_items, gm_acc, audioVars, notAudioGetMany>>

\* line 91 false, line 99: return items
GmReturn ==
    /\ gm_pc = "loop"
    /\ ~(gm_acc < gm_rd /\ now < gm_expiration)
    /\ gm_pc' = "done"
    /\ gm_returned_at' = now
    /\ UNCHANGED <<now, gm_rd, gm_timeout, gm_start, gm_expiration, gm_deadline,
                   gm_items, gm_acc, audioVars, notAudioGetMany>>

\* the clock advances while the consumer is suspended or outside the call
Tick ==
    /\ now < MaxTime
    /\ gm_pc # "loop"
    /\ gm_pc = "wait" => (aq[GmBuffer] = <<>> /\ now < gm_deadline)
    /\ now' = now + 1
    /\ UNCHANGED <<gm_pc, gm_rd, gm_timeout, gm_start, gm_expiration, gm_deadline,
                   gm_items, gm_acc, gm_returned_at, audioVars, notAudioGetMany>>

GetManyNext ==
    GmFrameArrive \/ GmStart \/ GmEnterWait \/ GmGot \/ GmTimeout \/ GmReturn \/ Tick

\* BaseAudioBuffer.get (lines 105-106) by the same consumer, after its call
\* of get_many has returned
GmDirectGet ==
    /\ gm_pc = "done"
    /\ Len(a_gets[GmBuffer]) < Len(gm_items) + MaxLaterGets
    /\ AudioGet(GmBuffer)

\* the clock is read by get_many only (lines 79, 84, 90): once the call has
\* returned, its value no longer reaches the buffer
GmDrainTick ==
    /\ gm_pc # "done"
    /\ Tick

GetManyDrainNext ==
    GmFrameArrive \/ GmStart \/ GmEnterWait \/ GmGot \/ GmTimeout \/ GmReturn
        \/ GmDrainTick \/ GmDirectGet

(***************************************************************************)
(* PcmChunker (audio/audio_frame_adapter.py:24-45).  The bytes pushed are   *)
(* drawn from two values, so that a lost, repeated or moved byte shows.    *)
(***************************************************************************)
ByteVals == {0, 255}

\* line 32: int(sample_rate * frame_ms / 1000) * 2
ChunkBytesOf(sample_rate, frame_ms) == ((sample_rate * frame_ms) \div 1000) * 2

chunk_bytes == ChunkBytesOf(ChunkerSampleRate, ChunkerFrameMs)

\* lines 39-45: the while loop of push
RECURSIVE ChunkLoopKeepsFull(_, _, _)
ChunkLoopKeepsFull(buf, chunks, cb) ==
    IF Len(buf) > cb
    THEN ChunkLoopKeepsFull(SubSeq(buf, cb + 1, Len(buf)),
                            Append(chunks, SubSeq(buf, 1, cb)), cb)
    ELSE [buffer |-> buf, chunks |-> chunks]

RECURSIVE ChunkLoopShortDel(_, _, _)
ChunkLoopShortDel(buf, chunks, cb) ==
    IF Len(buf) >= cb
    THEN ChunkLoopShortDel(SubSeq(buf, cb, Len(buf)),
                           Append(chunks, SubSeq(buf, 1, cb)), cb)
    ELSE [buffer |-> buf, chunks |-> chunks]

RECURSIVE ChunkLoop(_, _, _)
ChunkLoop(buf, chunks, cb) ==
    IF Len(buf) >= cb
    THEN ChunkLoop(SubSeq(buf, cb + 1, Len(buf)),
                   Append(chunks, SubSeq(buf, 1, cb)), cb)
    ELSE [buffer |-> buf, chunks |-> chunks]

\* PcmChunker.push (lines 36-45)
PcmChunkerPush(buf, pcm_bytes, cb) == ChunkLoop(buf \o pcm_bytes, <<>>, cb)

ChunkerInit ==
    /\ ch_buffer = <<>>
    /\ ch_in = <<>>
    /\ ch_out = <<>>
    /\ ch_pushes = 0

ChunkerPush ==
    /\ ch_pushes < MaxPushes
    /\ \E n \in 0..MaxPushLen : \E pcm \in [1..n -> ByteVals] :
         LET r == PcmChunkerPush(ch_buffer, pcm, chunk_bytes)
         IN  /\ ch_buffer' = r.buffer
             /\ ch_out' = ch_out \o r.chunks
             /\ ch_in' = ch_in \o pcm
    /\ ch_pushes' = ch_pushes + 1
    /\ UNCHANGED notChunker

ChunkerNext == ChunkerPush

(***************************************************************************)
(* AudioOverlapBuffer (audio/emotion_buffer.py:33-42).  A chunk is         *)
(* modelled by its arrival number.  A Python list is an object: a          *)
(* reference either owns its items or shares those of the deque.           *)
(***************************************************************************)
\* deque(maxlen = max_chunks).append
DequeAppendUnbounded(d, max_chunks, x) == Append(d, x)

DequeAppend(d, max_chunks, x) ==
    IF max_chunks = 0 THEN d
    ELSE IF Len(d) >= max_chunks THEN Append(Tail(d), x)
    ELSE Append(d, x)

\* AudioOverlapBuffer.push (lines 38-39)
OverlapPush(buffer, pcm_chunk) == DequeAppend(buffer, OverlapChunks, pcm_chunk)

\* AudioOverlapBuffer.get_overlap (lines 41-42): list(self.buffer) is a new list
GetOverlapShared(buffer) == [shared |-> TRUE, items |-> <<>>]

GetOverlap(buffer) == [shared |-> FALSE, items |-> buffer]

\* the items a list reference shows now, buffer being the deque it may share
Items(ref, buffer) == IF ref.shared THEN buffer ELSE ref.items

OverlapInit ==
    /\ ob_buffer = <<>>
    /\ ob_pushed = <<>>
    /\ ob_snaps = <<>>

OverlapPushCall ==
    /\ Len(ob_pushed) < MaxOverlapPushes
    /\ ob_buffer' = OverlapPush(ob_buffer, [id |-> Len(ob_pushed) + 1])
    /\ ob_pushed' = Append(ob_pushed, [id |-> Len(ob_pushed) + 1])
    /\ UNCHANGED <<ob_snaps, notOverlap>>

OverlapGetCall ==
    /\ Len(ob_snaps) < MaxSnapshots
    /\ ob_snaps' = Append(ob_snaps, [list |-> GetOverlap(ob_buffer),
                                     n |-> Len(ob_pushed)])
    /\ UNCHANGED <<ob_buffer, ob_pushed, notOverlap>>

OverlapNext == OverlapPushCall \/ OverlapGetCall

(***************************************************************************)
(* VadDetector.is_speech (audio/vad_detector.py:21-25).  vad is the answer *)
(* of the webrtcvad library for the chunk.                                 *)
(***************************************************************************)
VadIsSpeech(chunk_len, frame_bytes, vad) ==
    IF chunk_len # frame_bytes THEN FALSE ELSE vad

(***************************************************************************)
(* GoogleStreamingSttSession (audio/google_stt.py).  A chunk is modelled   *)
(* by its arrival number; Sentinel is the None that close() enqueues.      *)
(***************************************************************************)
Chunk(n) == [id |-> n]

Sentinel == [id |-> 0]

\* __init__ (lines 27-29): preload_chunks or [].  audio_queue is
\* queue.Queue(), without maxsize; it holds every item put so far, the worker
\* thread being modelled where it has taken none of them yet.  created is
\* history: the number of chunks the pipeline had seen when the session was
\* created.  failed says that streaming_recognize raised in the worker thread
\* of the session, failed_at (history) how many chunks had been seen by then.
NewSession(preload, buffer, n) ==
    [preload_chunks |-> IF Items(preload, buffer) = <<>>
                        THEN [shared |-> FALSE, items |-> <<>>] ELSE preload,
     audio_queue    |-> <<>>,
     closed         |-> FALSE,
     created        |-> n,
     failed         |-> FALSE,
     failed_at      |-> 0]

\* start (lines 70-120), when streaming_recognize or the iteration of its
\* responses raises: the except clause logs the error and the thread ends.
\* Nothing else is assigned.
SessionStartRaises(s, n) == [s EXCEPT !.failed = TRUE, !.failed_at = n]

\* push_audio (lines 122-130)
SessionPushAudio(s, pcm_chunk) ==
    IF ~s.closed THEN [s EXCEPT !.audio_queue = Append(@, pcm_chunk)] ELSE s

\* close (lines 132-135)
SessionClose(s) ==
    [s EXCEPT !.closed = TRUE, !.audio_queue = Append(@, Sentinel)]

(***************************************************************************)
(* StreamingSttOrchestrator (audio/streaming_stt_orchestrator.py).  st is  *)
(* the state of the pipeline and its orchestrator, t the clock and n the   *)
(* number of chunks seen, the current one included.                        *)
(***************************************************************************)
\* _start_new_session (lines 36-49)
StartNewSession(st, t, n) ==
    LET preload == GetOverlap(st.overlap)
    IN  [st EXCEPT !.sessions = Append(@, NewSession(preload, st.overlap, n)),
                   !.current = Len(st.sessions) + 1,
                   !.start_ts = t]

\* push_audio that starts the next session without closing the one it leaves
OrchPushAudioKeepsOld(st, pcm_chunk, is_speech, t, n) ==
    LET st1 == [st EXCEPT !.overlap = OverlapPush(@, pcm_chunk)]
    IN  IF st1.current = 0 /\ ~is_speech
        THEN st1
        ELSE LET st2 == IF st1.current = 0 THEN StartNewSession(st1, t, n)
                        ELSE st1
                 rotate == st2.start_ts # 0
                           /\ t - st2.start_ts > max_stream_duration
                 st3 == IF rotate THEN StartNewSession(st2, t, n) ELSE st2
             IN  [st3 EXCEPT !.sessions[st3.current] =
                                 SessionPushAudio(@, pcm_chunk)]

\* push_audio (lines 51-76)
OrchPushAudio(st, pcm_chunk, is_speech, t, n) ==
    LET st1 == [st EXCEPT !.overlap = OverlapPush(@, pcm_chunk)]
    IN  IF st1.current = 0 /\ ~is_speech
        THEN st1
        ELSE LET st2 == IF st1.current = 0 THEN StartNewSession(st1, t, n)
                        ELSE st1
                 rotate == st2.start_ts # 0
                           /\ t - st2.start_ts > max_stream_duration
                 st3 == IF rotate
                        THEN StartNewSession(
                                 [st2 EXCEPT !.sessions[st2.current] =
                                                 SessionClose(@)], t, n)
                        ELSE st2
             IN  [st3 EXCEPT !.sessions[st3.current] =
                                 SessionPushAudio(@, pcm_chunk)]

\* close (lines 78-80)
OrchClose(st) ==
    IF st.current # 0
    THEN [st EXCEPT !.sessions[st.current] = SessionClose(@)]
    ELSE st

(***************************************************************************)
(* RealtimeTranscriptionPipeline.on_audio_frame, the body of its loop for  *)
(* one chunk (audio/transcription_pipeline.py:33-44).  The loop has no     *)
(* suspension point.                                                       *)
(***************************************************************************)
PipelineOnChunkNoGate(st, pcm_chunk, is_speech, t, n) ==
    OrchPushAudio([st EXCEPT !.active = TRUE], pcm_chunk, TRUE, t, n)

PipelineOnChunk(st, pcm_chunk, is_speech, t, n) ==
    IF ~st.active
    THEN IF is_speech
         THEN OrchPushAudio([st EXCEPT !.active = TRUE], pcm_chunk, TRUE, t, n)
         ELSE st
    ELSE OrchPushAudio(st, pcm_chunk, is_speech, t, n)

SttState ==
    [active   |-> session_active,
     overlap  |-> overlap_buffer,
     sessions |-> sessions,
     current  |-> current_session,
     start_ts |-> session_start_ts]

SttSet(st) ==
    /\ session_active' = st.active
    /\ overlap_buffer' = st.overlap
    /\ sessions' = st.sessions
    /\ current_session' = st.current
    /\ session_start_ts' = st.start_ts

\* the values of constants.STT_MAX_DURATION_SEC the environment gives: its
\* default and a short one.  No code reads the constant.
SttMaxDurations == {1, STT_MAX_DURATION_SEC_DEFAULT}

SttInit ==
    /\ session_active = FALSE
    /\ overlap_buffer = <<>>
    /\ sessions = <<>>
    /\ current_session = 0
    /\ session_start_ts = 0
    /\ s_clock = 1
    /\ s_ticks = 0
    /\ s_vad = <<>>
    /\ s_closes = 0
    /\ s_hist = <<>>

\* the chunker hands the next full chunk to the loop of on_audio_frame
SttChunk ==
    /\ Len(s_vad) < MaxChunks
    /\ \E vad \in BOOLEAN :
         LET n == Len(s_vad) + 1
             is_speech == VadIsSpeech(chunk_bytes, chunk_bytes, vad)
         IN  /\ SttSet(PipelineOnChunk(SttState, Chunk(n), is_speech, s_clock, n))
             /\ s_vad' = Append(s_vad, is_speech)
    /\ s_hist' = Append(s_hist,
                        [cur |-> current_session,
                         due |-> IF session_start_ts = 0 THEN {}
                                 ELSE {d \in SttMaxDurations :
                                         s_clock - session_start_ts >= d},
                         overlap |-> overlap_buffer])
    /\ UNCHANGED <<s_clock, s_ticks, s_closes, notStt>>

\* RealtimeTranscriptionPipeline.close (lines 46-47), on AudioObserverTrack.stop
SttClose ==
    /\ s_closes < MaxCloses
    /\ SttSet(OrchClose(SttState))
    /\ s_closes' = s_closes + 1
    /\ UNCHANGED <<s_clock, s_ticks, s_vad, s_hist, notStt>>

\* time passes: a second, or a whole maximum stream duration
SttTick ==
    /\ s_ticks < MaxTicks
    /\ \E d \in {1, max_stream_duration} : s_clock' = s_clock + d
    /\ s_ticks' = s_ticks + 1
    /\ UNCHANGED <<session_active, overlap_buffer, sessions, current_session,
                   session_start_ts, s_vad, s_closes, s_hist, notStt>>

\* the recognizer stream of a session fails in its worker thread
SttWorkerFail ==
    /\ \E i \in 1..Len(sessions) :
         /\ ~sessions[i].failed
         /\ sessions' = [sessions EXCEPT ![i] =
                                            SessionStartRaises(@, Len(s_vad))]
    /\ UNCHANGED <<session_active, overlap_buffer, current_session,
                   session_start_ts, s_clock, s_ticks, s_vad, s_closes,
                   s_hist, notStt>>

SttNext == SttChunk \/ SttClose \/ SttTick

\* the pipeline with recognizer streams that fail
SttFailNext == SttChunk \/ SttClose \/ SttWorkerFail

(***************************************************************************)
(* The sinks (utils/emitter.py).  ready is the readyState of the channel.  *)
(***************************************************************************)
ReadyStates == {"connecting", "open", "closing", "closed"}

\* DataChannelWrapper.is_open (lines 56-60)
IsOpen(ready) == ready = "open"

\* DataChannelWrapper.send_json (lines 62-77) for a payload json.dumps
\* accepts.  sends is the number of calls of channel.send, delivered the
\* number of messages the channel took, raised whether an exception left
\* send_json.
SendJsonNoCheck(ready, send_raises) ==
    [sends |-> 1, delivered |-> IF send_raises THEN 0 ELSE 1,
     raised |-> FALSE]

SendJson(ready, send_raises) ==
    IF ~IsOpen(ready) THEN [sends |-> 0, delivered |-> 0, raised |-> FALSE]
    ELSE [sends |-> 1, delivered |-> IF send_raises THEN 0 ELSE 1,
          raised |-> FALSE]

\* DataChannelWrapper.__init__(self, channel) (lines 53-54), called with
\* nargs arguments after self
DataChannelWrapperNew(nargs) == IF nargs = 1 THEN "wrapper" ELSE "TypeError"

\* the body of http_post_event (lines 98-114): one POST, whose exception is
\* logged and swallowed
HttpPostEvent(post_raises) == [posts |-> 1, raised |-> FALSE]

\* a call of the coroutine function http_post_event: its body runs only if
\* the coroutine object the call returns is awaited
HttpPostEventCall(awaited, post_raises) ==
    IF awaited THEN HttpPostEvent(post_raises)
    ELSE [posts |-> 0, raised |-> FALSE]

(***************************************************************************)
(* VideoObserverTrack (tracks/video_observer.py) and the handlers of       *)
(* AudioObserverTrack (tracks/audio_observer.py), with the Session they    *)
(* share (api/session.py).  Every _run_yolo runs in a thread of the        *)
(* default executor; one iteration of its loop is one step.                *)
(***************************************************************************)
\* _run_yolo, one iteration of `for prediction in predictions` (lines
\* 57-74): the event, with what the two sinks did for it
RunYoloDispatch(frame_index, k, channel, http_up) ==
    LET http == HttpPostEventCall(FALSE, ~http_up)
        wrapper == IF channel # "none" THEN DataChannelWrapperNew(2)
                   ELSE "skipped"
        dc == IF wrapper = "wrapper" THEN SendJson(channel, FALSE)
              ELSE [sends |-> 0, delivered |-> 0, raised |-> FALSE]
    IN  [kind |-> "object", frame |-> frame_index, k |-> k,
         ready |-> channel, http_down |-> ~http_up,
         http |-> http.posts, dc |-> dc.sends, delivered |-> dc.delivered,
         aborted |-> wrapper = "TypeError"]

\* _handle_transcript (lines 35-38) and _detect_emotion (lines 67-87)
AudioHandlerDispatch(kind, channel, http_up) ==
    LET http == HttpPostEventCall(FALSE, ~http_up)
    IN  [kind |-> kind, frame |-> 0, k |-> 0,
         ready |-> channel, http_down |-> ~http_up,
         http |-> http.posts, dc |-> 0, delivered |-> 0, aborted |-> FALSE]

ObserverInit ==
    /\ o_channel = "none"
    /\ o_http_up = TRUE
    /\ o_frame_index = 0
    /\ o_jobs = <<>>
    /\ o_events = <<>>
    /\ o_audio = 0

\* Session.attach_data_channel (api/session.py:19-21)
ObsChannelAttach ==
    /\ o_channel = "none"
    /\ o_channel' = "connecting"
    /\ UNCHANGED <<o_http_up, o_frame_index, o_jobs, o_events, o_audio,
                   notObserver>>

\* the channel opens, or the peer closes it
ObsChannelChange ==
    /\ \/ o_channel = "connecting" /\ o_channel' = "open"
       \/ o_channel = "open" /\ o_channel' = "closed"
    /\ UNCHANGED <<o_http_up, o_frame_index, o_jobs, o_events, o_audio,
                   notObserver>>

\* the event-forward endpoint goes down, or comes back
ObsHttpChange ==
    /\ o_http_up' = ~o_http_up
    /\ UNCHANGED <<o_channel, o_frame_index, o_jobs, o_events, o_audio,
                   notObserver>>

\* VideoObserverTrack.recv (lines 28-46); should_process is the answer of
\* the FrameSampler
ObsVideoRecv ==
    /\ o_frame_index < MaxObsFrames
    /\ o_frame_index' = o_frame_index + 1
    /\ \E should_process \in BOOLEAN :
         o_jobs' = IF should_process
                   THEN Append(o_jobs, [frame_index |-> o_frame_index + 1,
                                        pc |-> "infer", preds |-> 0, k |-> 0])
                   ELSE o_jobs
    /\ UNCHANGED <<o_channel, o_http_up, o_events, o_audio, notObserver>>

\* _run_yolo up to the loop (lines 50-56): the inference returns n
\* predictions, or raises
ObsInferReturns ==
    /\ \E j \in 1..Len(o_jobs) :
         /\ o_jobs[j].pc = "infer"
         /\ \E n \in 0..MaxPreds, raises \in BOOLEAN :
              o_jobs' = [o_jobs EXCEPT ![j] =
                            IF raises \/ n = 0
                            THEN [@ EXCEPT !.pc = "done"]
                            ELSE [@ EXCEPT !.pc = "loop", !.preds = n]]
    /\ UNCHANGED <<o_channel, o_http_up, o_frame_index, o_events, o_audio,
                   notObserver>>

\* _run_yolo, one iteration of the loop (lines 57-76)
ObsLoopStep ==
    /\ \E j \in 1..Len(o_jobs) :
         /\ o_jobs[j].pc = "loop"
         /\ LET e == RunYoloDispatch(o_jobs[j].frame_index, o_jobs[j].k + 1,
                                     o_channel, o_http_up)
            IN  /\ o_events' = Append(o_events, e)
                /\ o_jobs' = [o_jobs EXCEPT ![j] =
                                 IF e.aborted \/ @.k + 1 = @.preds
                                 THEN [@ EXCEPT !.pc = "done", !.k = @ + 1]
                                 ELSE [@ EXCEPT !.k = @ + 1]]
    /\ UNCHANGED <<o_channel, o_http_up, o_frame_index, o_audio, notObserver>>

\* a final transcript reaches _handle_transcript, or an emotion window
\* _detect_emotion
ObsAudioEvent ==
    /\ o_audio < MaxAudioEvents
    /\ \E kind \in {"transcript", "emotion"} :
         o_events' = Append(o_events,
                            AudioHandlerDispatch(kind, o_channel, o_http_up))
    /\ o_audio' = o_audio + 1
    /\ UNCHANGED <<o_channel, o_http_up, o_frame_index, o_jobs, notObserver>>

ObserverNext ==
    \/ ObsChannelAttach \/ ObsChannelChange \/ ObsHttpChange \/ ObsVideoRecv
    \/ ObsInferReturns \/ ObsLoopStep \/ ObsAudioEvent

(***************************************************************************)
(* WebRTCConnectionHandler and its DataChannelWrapper (api/server.py).     *)
(* e_channel is "none" while handler.data_channel is None, else the        *)
(* readyState of the wrapped channel.                                      *)
(***************************************************************************)
EmitInit ==
    /\ e_channel = "none"
    /\ e_calls = <<>>
    /\ e_delivered = 0

\* on_datachannel (lines 44-49)
EmitOnDataChannel ==
    /\ e_channel = "none"
    /\ e_channel' \in {"connecting", "open"}
    /\ UNCHANGED <<e_calls, e_delivered, notEmit>>

\* the channel opens, starts closing, is closed
EmitChannelChange ==
    /\ \/ e_channel = "connecting" /\ e_channel' = "open"
       \/ e_channel = "open" /\ e_channel' = "closing"
       \/ e_channel = "closing" /\ e_channel' = "closed"
    /\ UNCHANGED <<e_calls, e_delivered, notEmit>>

\* the record of a call of send_json
SendJsonCall(ready, send_raises) ==
    LET r == SendJson(ready, send_raises)
    IN  [ready |-> ready, send_raises |-> send_raises, sends |-> r.sends,
         delivered |-> r.delivered, raised |-> r.raised]

\* _emit_event (lines 87-96), for an event of a processor
EmitEvent ==
    /\ Len(e_calls) < MaxEmits
    /\ e_channel # "none"
    /\ IsOpen(e_channel)
    /\ \E send_raises \in BOOLEAN :
         LET c == SendJsonCall(e_channel, send_raises)
         IN  /\ e_calls' = Append(e_calls, c)
             /\ e_delivered' = e_delivered + c.delivered
    /\ UNCHANGED <<e_channel, notEmit>>

\* DataChannelWrapper.send_json (utils/emitter.py:62-77) called on the
\* wrapper whatever the state of its channel
EmitSendJson ==
    /\ Len(e_calls) < MaxEmits
    /\ e_channel # "none"
    /\ \E send_raises \in BOOLEAN :
         LET c == SendJsonCall(e_channel, send_raises)
         IN  /\ e_calls' = Append(e_calls, c)
             /\ e_delivered' = e_delivered + c.delivered
    /\ UNCHANGED <<e_channel, notEmit>>

EmitNext ==
    EmitOnDataChannel \/ EmitChannelChange \/ EmitEvent \/ EmitSendJson

(***************************************************************************)
(* The counters of StreamSession (stream/session.py) along the two ingest  *)
(* paths, with the VideoBuffer between the ingest loop and the             *)
(* VideoProcessor.  The processor is the one its signature describes,      *)
(* VideoProcessor(session, frame_buffer).                                  *)
(***************************************************************************)
\* the session belongs to the handler that ingests its first frame
PathIs(path) == c_path = "none" \/ c_path = path

CountersInit ==
    /\ c_path = "none"
    /\ c_queue = <<>>
    /\ c_buffer_dropped = 0
    /\ c_frame = None
    /\ c_ingested = 0
    /\ total_received = 0
    /\ frame_count = 0
    /\ session_dropped_count = 0
    /\ detection_count = 0

\* analyze_ws, one binary message (api/websocket.py:40-54)
CntWsReceive ==
    /\ PathIs("ws")
    /\ c_path' = "ws"
    /\ c_ingested < MaxIngest
    /\ c_ingested' = c_ingested + 1
    /\ total_received' = total_received + 1
    /\ LET r == VideoBufferPut(c_queue, c_buffer_dropped,
                               Frame(c_ingested + 1, "bytes", 0))
       IN  /\ c_queue' = r.queue
           /\ c_buffer_dropped' = r.dc
           /\ session_dropped_count' = IF Truthy(r.ret)
                                       THEN session_dropped_count + 1
                                       ELSE session_dropped_count
    /\ UNCHANGED <<c_frame, frame_count, detection_count, notCounters>>

\* _buffer_frames, one iteration (api/server.py:117-119)
CntBufferFrames ==
    /\ PathIs("webrtc")
    /\ c_path' = "webrtc"
    /\ c_ingested < MaxIngest
    /\ c_ingested' = c_ingested + 1
    /\ LET r == VideoBufferPut(c_queue, c_buffer_dropped,
                               Frame(c_ingested + 1, "video", 0))
       IN  /\ c_queue' = r.queue
           /\ c_buffer_dropped' = r.dc
    /\ UNCHANGED <<c_frame, total_received, frame_count,
                   session_dropped_count, detection_count, notCounters>>

\* VideoProcessor._run: frame = await self.frame_buffer.get()
\* (stream/frame_processor.py:95-96)
CntProcessorGet ==
    /\ c_frame = None
    /\ c_queue # <<>>
    /\ c_frame' = Head(c_queue)
    /\ c_queue' = Tail(c_queue)
    /\ UNCHANGED <<c_path, c_buffer_dropped, c_ingested, total_received,
                   frame_count, session_dropped_count, detection_count,
                   notCounters>>

\* _process_single_frame (lines 99-110): the inference returns n detections
\* and _emit_detection_event records them and the frame (lines 132-137), or
\* a step raises and _handle_processing_error records nothing
CntProcessorComplete ==
    /\ c_frame # None
    /\ c_frame' = None
    /\ \E ok \in BOOLEAN, n \in 0..MaxPreds :
         /\ frame_count' = IF ok THEN frame_count + 1 ELSE frame_count
         /\ detection_count' = IF ok THEN detection_count + n
                               ELSE detection_count
    /\ UNCHANGED <<c_path, c_queue, c_buffer_dropped, c_ingested,
                   total_received, session_dropped_count, notCounters>>

CountersNext ==
    CntWsReceive \/ CntBufferFrames \/ CntProcessorGet \/ CntProcessorComplete

(***************************************************************************)
(* Session and SessionRegistry (api/session.py).  A registry state st has  *)
(* the dict _sessions as map (0 for an absent key, else the index of the   *)
(* Session in all) and every Session ever created as all.                  *)
(***************************************************************************)
RegIds == {"a", "b"}

\* Session.__init__ (lines 12-17); closes (history) counts the calls of close
ApiSession(correlation_id) ==
    [correlation_id |-> correlation_id, closed_at_set |-> FALSE,
     data_channel |-> "none", closes |-> 0]

\* Session.close (lines 23-31); close_raises says that data_channel.close()
\* raises
ApiSessionClose(s, close_raises) ==
    [s EXCEPT !.data_channel =
                  IF @ # "none" /\ @ # "closed" /\ ~close_raises
                  THEN "closed" ELSE @,
              !.closed_at_set = TRUE,
              !.closes = @ + 1]

\* SessionRegistry.create (lines 38-42)
RegistryCreate(st, correlation_id) ==
    [map |-> [st.map EXCEPT ![correlation_id] = Len(st.all) + 1],
     all |-> Append(st.all, ApiSession(correlation_id))]

\* SessionRegistry.get (lines 44-48): the index of the Session, 0 for None
RegistryGet(st, correlation_id) == st.map[correlation_id]

\* SessionRegistry.close (lines 50-54)
RegistryCloseKeepsEntry(st, correlation_id, close_raises) ==
    IF st.map[correlation_id] # 0
    THEN [st EXCEPT !.all[st.map[correlation_id]] =
                        ApiSessionClose(@, close_raises)]
    ELSE st

RegistryClose(st, correlation_id, close_raises) ==
    IF st.map[correlation_id] # 0
    THEN [map |-> [st.map EXCEPT ![correlation_id] = 0],
          all |-> [st.all EXCEPT ![st.map[correlation_id]] =
                                     ApiSessionClose(@, close_raises)]]
    ELSE st

RegState == [map |-> r_map, all |-> r_all]

RegistryInit ==
    /\ r_map = [id \in RegIds |-> 0]
    /\ r_all = <<>>
    /\ r_closes = <<>>

RegCreate ==
    /\ Len(r_all) < MaxSessions
    /\ \E id \in RegIds :
         LET st == RegistryCreate(RegState, id)
         IN  r_map' = st.map /\ r_all' = st.all
    /\ UNCHANGED <<r_closes, notRegistry>>

\* Session.attach_data_channel (lines 19-21), with a channel that is open
RegAttach ==
    /\ \E i \in 1..Len(r_all) :
         /\ r_all[i].data_channel = "none"
         /\ r_all' = [r_all EXCEPT ![i].data_channel = "open"]
    /\ UNCHANGED <<r_map, r_closes, notRegistry>>

\* SessionRegistry.close, with the get that follows it
RegClose ==
    /\ Len(r_closes) < MaxRegCloses
    /\ \E id \in RegIds, close_raises \in BOOLEAN :
         LET st == RegistryClose(RegState, id, close_raises)
         IN  /\ r_map' = st.map
             /\ r_all' = st.all
             /\ r_closes' = Append(r_closes,
                                   [id |-> id, entry |-> r_map[id],
                                    before |-> RegState, after |-> st,
                                    get_after |-> RegistryGet(st, id),
                                    raised |-> FALSE])
    /\ UNCHANGED notRegistry

RegistryNext == RegCreate \/ RegAttach \/ RegClose

(***************************************************************************)
(* AudioProcessor (stream/audio_processor.py, lines 19-34) with the        *)
(* lifecycle of BaseProcessor (stream/frame_processor.py, lines 40-51).    *)
(* _run builds the two sub-processors, starts each and returns; it keeps   *)
(* no reference to either.                                                 *)
(***************************************************************************)
SubNames == {"stt", "emotion"}

\* BaseProcessor.__init__ (lines 31-34), before the object exists
NoProcessor == [task |-> "none", stop |-> FALSE]

\* BaseProcessor.start (lines 40-42): a task is made only if there is none
BaseStart(p) == IF p.task = "none" THEN [p EXCEPT !.task = "pending"] ELSE p

\* BaseProcessor.stop (lines 44-51): sets _stop and cancels the task; a task
\* that has finished is not changed by cancel
BaseStop(p) ==
    [task |-> IF p.task \in {"pending", "running"} THEN "cancelled"
              ELSE p.task,
     stop |-> TRUE]

\* stop as AudioProcessor inherits it: it reaches the AudioProcessor's own
\* task only, the sub-processors being held by nothing
ProcessorStop(own, subs) == [own |-> BaseStop(own), subs |-> subs]

AudioProcInit ==
    /\ ap_task = "none"
    /\ ap_stop = FALSE
    /\ ap_returned = FALSE
    /\ ap_subs = [n \in SubNames |-> NoProcessor]
    /\ ap_emits = <<>>

\* WebRTCConnectionHandler._handle_track: processor.start(emitter)
ApStart ==
    /\ ap_task = "none"
    /\ ~ap_stop
    /\ ap_task' = BaseStart([task |-> ap_task, stop |-> ap_stop]).task
    /\ UNCHANGED <<ap_stop, ap_returned, ap_subs, ap_emits, notAudioProc>>

\* the task of AudioProcessor._run: both sub-processors are started and the
\* coroutine returns
ApRun ==
    /\ ap_task = "pending"
    /\ ap_subs' = [n \in SubNames |-> BaseStart(ap_subs[n])]
    /\ ap_task' = "done"
    /\ UNCHANGED <<ap_stop, ap_returned, ap_emits, notAudioProc>>

\* the first step of a sub-processor's task: it enters its loop
ApSubRun ==
    /\ \E n \in SubNames :
         /\ ap_subs[n].task = "pending"
         /\ ap_subs' = [ap_subs EXCEPT ![n].task =
                            IF ap_subs[n].stop THEN "done" ELSE "running"]
    /\ UNCHANGED <<ap_task, ap_stop, ap_returned, ap_emits, notAudioProc>>

\* one turn of a sub-processor's loop that processes a window and calls the
\* emitter (lines 56-66 and 112-113, 149-159 and 203-204)
ApSubEmit ==
    /\ Len(ap_emits) < MaxSubEmits
    /\ \E n \in SubNames :
         /\ ap_subs[n].task = "running"
         /\ ~ap_subs[n].stop
         /\ ap_emits' = Append(ap_emits,
                               [by |-> n, after_stop |-> ap_returned])
    /\ UNCHANGED <<ap_task, ap_stop, ap_returned, ap_subs, notAudioProc>>

\* WebRTCConnectionHandler._handle_track_ended: await processor.stop()
ApStop ==
    /\ ~ap_returned
    /\ LET r == ProcessorStop([task |-> ap_task, stop |-> ap_stop], ap_subs)
       IN  /\ ap_task' = r.own.task
           /\ ap_stop' = r.own.stop
           /\ ap_subs' = r.subs
    /\ ap_returned' = TRUE
    /\ UNCHANGED <<ap_emits, notAudioProc>>

AudioProcNext == ApStart \/ ApRun \/ ApSubRun \/ ApSubEmit \/ ApStop

(***************************************************************************)
(* VideoProcessor (stream/frame_processor.py, lines 54-192).  A frame is   *)
(* what happens to it in the pipeline: fails names the stage that raises   *)
(* ("none" if none does) and detections is the list infer_image returns.   *)
(* A detection is a dict; valid says that every field of it converts, a    *)
(* field that does not raising ValueError or TypeError.                    *)
(***************************************************************************)
FailStages == {"decode", "infer"}

\* the dict of one prediction as DetectionParser builds it
\* (inference/roboflow_client.py, lines 76-82), one class per position
Detection(i, valid) == [id |-> i, cls |-> i, valid |-> valid]

DetectionLists ==
    UNION {{[i \in 1..n |-> Detection(i, v[i])] : v \in [1..n -> BOOLEAN]} :
           n \in 0..MaxDets}

Frames ==
    {[fails |-> f, detections |-> <<>>] : f \in FailStages}
        \cup {[fails |-> "none", detections |-> d] : d \in DetectionLists}

\* VideoProcessor._create_wound_from_detection (lines 75-91): the WoundModel
\* in a one-element sequence, the empty sequence for None
CreateWoundFromDetection(detection) ==
    IF detection.valid
    THEN <<[id |-> detection.id, cls |-> detection.cls]>>
    ELSE <<>>

\* a conversion that gives up the whole list at a malformed record
ConvertDetectionsAllOrNone(detections) ==
    IF \A i \in 1..Len(detections) : detections[i].valid
    THEN [i \in 1..Len(detections) |->
              CreateWoundFromDetection(detections[i])[1]]
    ELSE <<>>

\* VideoProcessor._convert_detections (lines 66-73)
RECURSIVE ConvertDetections(_)
ConvertDetections(detections) ==
    IF detections = <<>> THEN <<>>
    ELSE CreateWoundFromDetection(Head(detections))
             \o ConvertDetections(Tail(detections))

\* StreamSession.record_frame (stream/session.py, lines 45-47)
RecordFrame(session) == [session EXCEPT !.frame_count = @ + 1]

\* StreamSession.record_detection (stream/session.py, lines 66-67), as
\* VideoProcessor._record_detections calls it (lines 155-158)
RecordDetections(session, wounds) ==
    IF wounds # <<>>
    THEN [session EXCEPT !.detection_count = @ + Len(wounds)]
    ELSE session

\* VideoProcessor._emit_detection_event (lines 125-153): the session it
\* leaves, the frame_index it read and the events it passed to the emitter
EmitDetectionEvent(session, detections) ==
    LET wounds == ConvertDetections(detections)
        frame_index == session.frame_count
    IN  [session |-> RecordFrame(RecordDetections(session, wounds)),
         frame_index |-> frame_index,
         events |-> [i \in 1..Len(wounds) |->
                         [event_type |-> "object", label |-> wounds[i].cls,
                          frameIndex |-> frame_index]],
         raised |-> FALSE]

\* VideoProcessor._handle_processing_error (lines 180-192); no frame_index
\* is read, which -1 stands for
HandleProcessingError(session, error) ==
    [session |-> session, frame_index |-> -1,
     events |-> <<[session_id |-> "s", error |-> error]>>,
     raised |-> FALSE]

\* a _process_single_frame without its except clause
ProcessSingleFrameNoCatch(session, frame) ==
    IF frame.fails # "none"
    THEN [session |-> session, frame_index |-> -1, events |-> <<>>,
          raised |-> TRUE]
    ELSE EmitDetectionEvent(session, frame.detections)

\* VideoProcessor._process_single_frame (lines 99-110)
ProcessSingleFrame(session, frame) ==
    IF frame.fails # "none"
    THEN HandleProcessingError(session, frame.fails)
    ELSE EmitDetectionEvent(session, frame.detections)

VideoProcInit ==
    /\ vp_task = "none"
    /\ vp_stop = FALSE
    /\ vp_session = [frame_count |-> 0, detection_count |-> 0]
    /\ vp_log = <<>>

\* BaseProcessor.start (lines 40-42)
VpStart ==
    /\ vp_task = "none"
    /\ vp_task' = "running"
    /\ UNCHANGED <<vp_stop, vp_session, vp_log, notVideoProc>>

\* one turn of VideoProcessor._run (lines 93-97): a frame is taken from the
\* buffer and processed; emitter_raises says that the emitter raises, which
\* safe_emit (utils/emitter.py, lines 21-43) logs and swallows
VpTurn ==
    /\ vp_task = "running"
    /\ ~vp_stop
    /\ Len(vp_log) < MaxVpFrames
    /\ \E frame \in Frames, emitter_raises \in BOOLEAN :
         LET r == ProcessSingleFrame(vp_session, frame)
         IN  /\ vp_session' = r.session
             /\ vp_task' = IF r.raised THEN "done" ELSE "running"
             /\ vp_log' = Append(vp_log,
                                 [frame |-> frame,
                                  frame_index |-> r.frame_index,
                                  events |-> r.events,
                                  emitter_raised |->
                                      emitter_raises /\ r.events # <<>>])
    /\ UNCHANGED <<vp_stop, notVideoProc>>

\* BaseProcessor.stop (lines 44-51)
VpStop ==
    /\ ~vp_stop
    /\ vp_stop' = TRUE
    /\ vp_task' = IF vp_task = "running" THEN "cancelled" ELSE vp_task
    /\ UNCHANGED <<vp_session, vp_log, notVideoProc>>

VideoProcNext == VpStart \/ VpTurn \/ VpStop

(***************************************************************************)
(* WebRTCConnectionHandler._handle_track_ended and _cleanup                *)
(* (api/server.py, lines 123-158), with StreamSession.close                *)
(* (stream/session.py, lines 72-84).                                       *)
(***************************************************************************)
SessionCounters ==
    {"total_received", "frame_count", "dropped_count", "detection_count"}

\* the attributes an instance of DataChannelWrapper has (utils/emitter.py,
\* lines 46-77)
DataChannelWrapperAttrs == {"_channel", "is_open", "send_json"}

\* StreamSession.close: the keys of the summary that are counters
StreamSessionClose(session) == [k \in {"frame_count"} |-> session[k]]

\* dict.get(key, default) on a summary
SummaryGet(summary, key, default) ==
    IF key \in DOMAIN summary THEN summary[key] ELSE default

\* _handle_track_ended from line 129 on, for a handler whose data_channel is
\* channel: the message it hands to send_json, whether it reaches _cleanup
\* and whether an exception leaves it
HandleTrackEnded(channel, session) ==
    LET summary == StreamSessionClose(session)
        summary_event ==
            [event_type |-> "stream_closed",
             summary |->
                 [total_frames_received |->
                      SummaryGet(summary, "total_received", 0),
                  total_frames_processed |->
                      SummaryGet(summary, "frame_count", 0),
                  total_frames_dropped |-> session.dropped_count,
                  total_detections |-> session.detection_count]]
    IN  IF channel = "none"
        THEN [sent |-> <<>>, cleanup |-> TRUE, raised |-> "none"]
        ELSE IF "readyState" \notin DataChannelWrapperAttrs
        THEN [sent |-> <<>>, cleanup |-> FALSE, raised |-> "AttributeError"]
        ELSE IF channel = "open"
        THEN [sent |-> <<summary_event>>, cleanup |-> TRUE, raised |-> "none"]
        ELSE [sent |-> <<>>, cleanup |-> TRUE, raised |-> "none"]

TrackEndInit ==
    /\ te_channel = "none"
    /\ te_session = [k \in SessionCounters |-> 0]
    /\ te_tracked = TRUE
    /\ te_pc_closed = FALSE
    /\ te_sent = <<>>
    /\ te_ended = <<>>

\* on_datachannel (lines 44-49)
TeOnDataChannel ==
    /\ te_channel = "none"
    /\ te_ended = <<>>
    /\ te_channel' = "open"
    /\ UNCHANGED <<te_session, te_tracked, te_pc_closed, te_sent, te_ended,
                   notTrackEnd>>

\* the client closes the channel
TeChannelClosed ==
    /\ te_channel = "open"
    /\ te_channel' = "closed"
    /\ UNCHANGED <<te_session, te_tracked, te_pc_closed, te_sent, te_ended,
                   notTrackEnd>>

\* record_received, record_frame, record_dropped, record_detection
\* (stream/session.py, lines 45-67) while the track is live
TeRecord ==
    /\ te_ended = <<>>
    /\ \E k \in SessionCounters :
         /\ te_session[k] < MaxTeCount
         /\ te_session' = [te_session EXCEPT ![k] = @ + 1]
    /\ UNCHANGED <<te_channel, te_tracked, te_pc_closed, te_sent, te_ended,
                   notTrackEnd>>

\* on_ended (lines 83-85): _handle_track_ended, with _cleanup if it is reached
TeTrackEnded ==
    /\ te_ended = <<>>
    /\ LET r == HandleTrackEnded(te_channel, te_session)
       IN  /\ te_sent' = te_sent \o r.sent
           /\ te_tracked' = IF r.cleanup THEN FALSE ELSE te_tracked
           /\ te_pc_closed' = IF r.cleanup THEN TRUE ELSE te_pc_closed
           /\ te_ended' = Append(te_ended,
                                 [channel |-> te_channel,
                                  session |-> te_session,
                                  raised |-> r.raised])
    /\ UNCHANGED <<te_channel, te_session, notTrackEnd>>

TrackEndNext ==
    TeOnDataChannel \/ TeChannelClosed \/ TeRecord \/ TeTrackEnded

(***************************************************************************)
(* The loops AudioSpeechToTextProcessor._run and AudioEmotionProcessor._run *)
(* (stream/audio_processor.py, lines 52-73 and 146-166).  Both have the    *)
(* same body; they differ in the retrive_duration they pass to get_many.   *)
(***************************************************************************)

\* the loop body the module docstring of workbench/audio_transcription_debug
\* describes (lines 10-32): the batch is processed a second time and an
\* empty batch ends the loop
LoopTurnDuplicating(frames, window_raises) ==
    [windows |-> <<frames, frames>>, running |-> frames # <<>>]

\* one turn of the loop, from the return of get_many on (lines 63-73 and
\* 156-166); window_raises says that the synchronous part of _process_window
\* raises, which _process_window logs (lines 93-95 and 184-186)
LoopTurn(frames, window_raises) ==
    IF frames = <<>>
    THEN [windows |-> <<>>, running |-> TRUE]
    ELSE [windows |-> <<frames>>, running |-> TRUE]

AudioLoopInit ==
    /\ lp_put = 0
    /\ lp_q = [n \in SubNames |-> <<>>]
    /\ lp_running = [n \in SubNames |-> TRUE]
    /\ lp_turns = [n \in SubNames |-> <<>>]

\* AudioBufferBroadcast.put: the frame goes to the queue of either buffer
LpPut ==
    /\ lp_put < MaxLpFrames
    /\ lp_put' = lp_put + 1
    /\ lp_q' = [n \in SubNames |-> Append(lp_q[n], lp_put + 1)]
    /\ UNCHANGED <<lp_running, lp_turns, notAudioLoop>>

\* a turn of a loop in which get_many timed out on an empty queue
LpIdleTurn ==
    /\ \E n \in SubNames :
         /\ lp_running[n]
         /\ Len(lp_turns[n]) < MaxLpTurns
         /\ lp_q[n] = <<>>
         /\ LET r == LoopTurn(<<>>, FALSE)
            IN  /\ lp_running' = [lp_running EXCEPT ![n] = r.running]
                /\ lp_turns' = [lp_turns EXCEPT ![n] =
                                    Append(@, [batch |-> <<>>,
                                               windows |-> r.windows,
                                               window_raised |-> FALSE])]
    /\ UNCHANGED <<lp_put, lp_q, notAudioLoop>>

\* a turn of a loop in which get_many returned the first k frames of the
\* queue
LpBatchTurn ==
    /\ \E n \in SubNames :
         /\ lp_running[n]
         /\ Len(lp_turns[n]) < MaxLpTurns
         /\ \E k \in 1..Len(lp_q[n]), window_raises \in BOOLEAN :
              LET batch == SubSeq(lp_q[n], 1, k)
                  r == LoopTurn(batch, window_raises)
              IN  /\ lp_q' = [lp_q EXCEPT ![n] =
                                  SubSeq(@, k + 1, Len(@))]
                  /\ lp_running' = [lp_running EXCEPT ![n] = r.running]
                  /\ lp_turns' = [lp_turns EXCEPT ![n] =
                                      Append(@, [batch |-> batch,
                                                 windows |-> r.windows,
                                                 window_raised |->
                                                     window_raises])]
    /\ UNCHANGED <<lp_put, notAudioLoop>>

AudioLoopNext == LpPut \/ LpIdleTurn \/ LpBatchTurn

(***************************************************************************)
(* AudioEmotionProcessor._process_window_sync (stream/audio_processor.py,   *)
(* lines 211-249) and audioframe_to_wav_file (preprocessing/                *)
(* audio_decoder.py, lines 68-110).  Both temporary files are made with    *)
(* delete=False, so a file goes away only where the code unlinks it.       *)
(***************************************************************************)

\* where audioframe_to_wav_file raises: reading the frames (lines 80-84),
\* writing the original file (lines 87-91), reading it back or resampling
\* (lines 93-105), or nowhere
DecodeFailures == {"none", "frames", "write", "read"}

\* audioframe_to_wav_file for window w: the files it leaves and the value it
\* returns, which is the path of the resampled file, a str
AudioframeToWavFile(files, w, fail) ==
    IF fail = "frames"
    THEN [files |-> files, raised |-> TRUE, value |-> [type |-> "none"]]
    ELSE IF fail \in {"write", "read"}
    THEN [files |-> files \cup {<<w, "original">>}, raised |-> TRUE,
          value |-> [type |-> "none"]]
    ELSE [files |-> ((files \cup {<<w, "original">>})
                        \ {<<w, "original">>}) \cup {<<w, "resampled">>},
          raised |-> FALSE,
          value |-> [type |-> "str", path |-> <<w, "resampled">>]]

\* the assignment 'tmp_path, duration_seconds = value' (line 219): a tuple
\* of two unpacks; a str unpacks into its characters, and the path of a
\* temporary file, which has the prefix "resampled_" and the suffix ".wav",
\* has more than two, so the assignment raises ValueError
UnpacksToPair(value) == value.type = "tuple2"

\* _process_window_sync for window w: the files that exist when it returns
\* or raises
ProcessWindowSync(files, w, fail, analysis_raises, predict_raises) ==
    LET d == AudioframeToWavFile(files, w, fail)
    IN  IF d.raised \/ ~UnpacksToPair(d.value)
        THEN \* tmp_path is still None in the finally clause
             [files |-> d.files, raised |-> TRUE]
        ELSE \* tmp_path is bound: the finally clause unlinks it
             [files |-> d.files \ {d.value.path},
              raised |-> analysis_raises]

EmotionWindowInit ==
    /\ ew_files = {}
    /\ ew_calls = <<>>

\* one emotion window goes through _process_window_sync
EwProcessWindow ==
    /\ Len(ew_calls) < MaxEwWindows
    /\ \E fail \in DecodeFailures,
          analysis_raises \in BOOLEAN, predict_raises \in BOOLEAN :
         LET w == Len(ew_calls) + 1
             r == ProcessWindowSync(ew_files, w, fail, analysis_raises,
                                    predict_raises)
         IN  /\ ew_files' = r.files
             /\ ew_calls' = Append(ew_calls,
                                   [fail |-> fail,
                                    analysis_raises |-> analysis_raises,
                                    predict_raises |-> predict_raises,
                                    raised |-> r.raised,
                                    left |-> {f \in r.files : f[1] = w}])
    /\ UNCHANGED notEmotionWindow

EmotionWindowNext == EwProcessWindow

(***************************************************************************)
(* FrameSampler (video/frame_sampler.py).  Time is in ticks and _interval  *)
(* is FsInterval ticks.  _last starts at 0.0 and time.time() is far from   *)
(* the epoch, so the clock starts at least one interval after 0.           *)
(***************************************************************************)
FsThreads == {"t1", "t2"}

\* the test of line 15
FsDue(at, last) == at - last >= FsInterval

\* a should_process that does not store the instant of a true return
ShouldProcessNoStore(at, last) ==
    [result |-> FsDue(at, last), last |-> last]

\* should_process (lines 13-18) run without interruption
ShouldProcess(at, last) ==
    IF FsDue(at, last) THEN [result |-> TRUE, last |-> at]
    ELSE [result |-> FALSE, last |-> last]

SamplerInit ==
    /\ fs_clock = FsInterval
    /\ fs_last = 0
    /\ fs_pc = [t \in FsThreads |-> "idle"]
    /\ fs_now = [t \in FsThreads |-> 0]
    /\ fs_returns = <<>>

\* the clock advances
FsTick ==
    /\ fs_clock < FsInterval + MaxFsTime
    /\ fs_clock' = fs_clock + 1
    /\ UNCHANGED <<fs_last, fs_pc, fs_now, fs_returns, notSampler>>

\* a whole call of should_process, for callers that call one after another
FsShouldProcess ==
    /\ Len(fs_returns) < MaxFsCalls
    /\ \E t \in FsThreads :
         LET r == ShouldProcess(fs_clock, fs_last)
         IN  /\ fs_last' = r.last
             /\ fs_returns' = Append(fs_returns,
                                     [thread |-> t, now |-> fs_clock,
                                      result |-> r.result])
    /\ UNCHANGED <<fs_clock, fs_pc, fs_now, notSampler>>

\* line 14 in thread t
FsReadNow(t) ==
    /\ fs_pc[t] = "idle"
    /\ Len(fs_returns)
           + Cardinality({u \in FsThreads : fs_pc[u] # "idle"}) < MaxFsCalls
    /\ fs_now' = [fs_now EXCEPT ![t] = fs_clock]
    /\ fs_pc' = [fs_pc EXCEPT ![t] = "read"]
    /\ UNCHANGED <<fs_clock, fs_last, fs_returns, notSampler>>

\* line 15 in thread t, with the return of line 18 if the test is false
FsTest(t) ==
    /\ fs_pc[t] = "read"
    /\ IF FsDue(fs_now[t], fs_last)
       THEN /\ fs_pc' = [fs_pc EXCEPT ![t] = "passed"]
            /\ UNCHANGED fs_returns
       ELSE /\ fs_pc' = [fs_pc EXCEPT ![t] = "idle"]
            /\ fs_returns' = Append(fs_returns,
                                    [thread |-> t, now |-> fs_now[t],
                                     result |-> FALSE])
    /\ UNCHANGED <<fs_clock, fs_last, fs_now, notSampler>>

\* lines 16-17 in thread t
FsStore(t) ==
    /\ fs_pc[t] = "passed"
    /\ fs_last' = fs_now[t]
    /\ fs_pc' = [fs_pc EXCEPT ![t] = "idle"]
    /\ fs_returns' = Append(fs_returns,
                            [thread |-> t, now |-> fs_now[t],
                             result |-> TRUE])
    /\ UNCHANGED <<fs_clock, fs_now, notSampler>>

FsThreadReadNow == \E t \in FsThreads : FsReadNow(t)

FsThreadTest == \E t \in FsThreads : FsTest(t)

FsThreadStore == \E t \in FsThreads : FsStore(t)

SamplerNext == FsTick \/ FsShouldProcess

SamplerThreadsNext ==
    FsTick \/ FsThreadReadNow \/ FsThreadTest \/ FsThreadStore

(***************************************************************************)
(* canonical_label (audio/emotion_adapter.py, lines 6-60).  A str is the   *)
(* sequence of its characters; a Python value is a record whose type is    *)
(* "None" or "str".                                                        *)
(***************************************************************************)
PyNone == [type |-> "None", chars |-> <<>>]

PyStr(chars) == [type |-> "str", chars |-> chars]

\* CANONICAL_LABELS (lines 6-15)
CANONICAL_LABELS ==
    {<<"n", "e", "u", "t", "r", "a", "l">>,
     <<"h", "a", "p", "p", "y">>,
     <<"s", "a", "d">>,
     <<"a", "n", "g", "r", "y">>,
     <<"f", "e", "a", "r", "f", "u", "l">>,
     <<"c", "a", "l", "m">>,
     <<"d", "i", "s", "g", "u", "s", "t", "e", "d">>,
     <<"s", "u", "r", "p", "r", "i", "s", "e", "d">>}

\* ID_MAP (lines 18-27)
ID_MAP ==
    <<"0">> :> <<"n", "e", "u", "t", "r", "a", "l">>
        @@ <<"1">> :> <<"c", "a", "l", "m">>
        @@ <<"2">> :> <<"h", "a", "p", "p", "y">>
        @@ <<"3">> :> <<"s", "a", "d">>
        @@ <<"4">> :> <<"a", "n", "g", "r", "y">>
        @@ <<"5">> :> <<"f", "e", "a", "r", "f", "u", "l">>
        @@ <<"6">> :> <<"d", "i", "s", "g", "u", "s", "t", "e", "d">>
        @@ <<"7">> :> <<"s", "u", "r", "p", "r", "i", "s", "e", "d">>

\* SYNONYMS (lines 30-32)
SYNONYMS == <<"d", "i", "s", "g", "u", "s", "t">> :> <<"d", "i", "s", "g", "u", "s", "t", "e", "d">>

\* strings that are no label, id or synonym
UnknownLabels ==
    {<<"j", "o", "y">>,
     <<"8">>,
     <<"d", "i", "s", "g", "u", "s", "t", "s">>,
     <<"s", "a", "d", " ", "h", "a", "p", "p", "y">>,
     <<"x">>}

\* str.lower and str.upper on one character
LowerChar ==
    "A" :> "a" @@ "B" :> "b" @@ "C" :> "c" @@ "D" :> "d"
        @@ "E" :> "e" @@ "F" :> "f" @@ "G" :> "g" @@ "H" :> "h"
        @@ "I" :> "i" @@ "J" :> "j" @@ "K" :> "k" @@ "L" :> "l"
        @@ "M" :> "m" @@ "N" :> "n" @@ "O" :> "o" @@ "P" :> "p"
        @@ "Q" :> "q" @@ "R" :> "r" @@ "S" :> "s" @@ "T" :> "t"
        @@ "U" :> "u" @@ "V" :> "v" @@ "W" :> "w" @@ "X" :> "x"
        @@ "Y" :> "y" @@ "Z" :> "z"

LowerOf(c) == IF c \in DOMAIN LowerChar THEN LowerChar[c] ELSE c

UpperOf(c) ==
    IF \E u \in DOMAIN LowerChar : LowerChar[u] = c
    THEN CHOOSE u \in DOMAIN LowerChar : LowerChar[u] = c
    ELSE c

StrLower(s) == [i \in 1..Len(s) |-> LowerOf(s[i])]

StrUpper(s) == [i \in 1..Len(s) |-> UpperOf(s[i])]

Whitespace == {" ", "\t", "\n"}

\* str.strip
RECURSIVE StripLeft(_)
StripLeft(s) ==
    IF s # <<>> /\ Head(s) \in Whitespace THEN StripLeft(Tail(s)) ELSE s

RECURSIVE StripRight(_)
StripRight(s) ==
    IF s # <<>> /\ s[Len(s)] \in Whitespace
    THEN StripRight(SubSeq(s, 1, Len(s) - 1))
    ELSE s

StrStrip(s) == StripRight(StripLeft(s))

\* a canonical_label that looks its argument up as it is written
CanonicalLabelAsWritten(raw_label) ==
    IF raw_label.type = "None" \/ raw_label.chars = <<>> THEN PyNone
    ELSE LET s == raw_label.chars
         IN  IF s \in DOMAIN ID_MAP THEN PyStr(ID_MAP[s])
             ELSE IF s \in CANONICAL_LABELS THEN PyStr(s)
             ELSE IF s \in DOMAIN SYNONYMS THEN PyStr(SYNONYMS[s])
             ELSE PyNone

\* canonical_label (lines 35-60)
CanonicalLabel(raw_label) ==
    IF raw_label.type = "None" \/ raw_label.chars = <<>> THEN PyNone
    ELSE LET s == StrLower(StrStrip(raw_label.chars))
         IN  IF s = <<>> THEN PyNone
             ELSE IF s \in DOMAIN ID_MAP THEN PyStr(ID_MAP[s])
             ELSE IF s \in CANONICAL_LABELS THEN PyStr(s)
             ELSE IF s \in DOMAIN SYNONYMS THEN PyStr(SYNONYMS[s])
             ELSE PyNone

\* the ways an argument is written from a string: as it is, in upper case,
\* with its first letter in upper case, with whitespace around it
Writings == {"plain", "upper", "capital", "padded", "padded upper"}

Written(s, how) ==
    CASE how = "plain" -> s
      [] how = "upper" -> StrUpper(s)
      [] how = "capital" ->
             IF s = <<>> THEN s ELSE <<UpperOf(Head(s))>> \o Tail(s)
      [] how = "padded" -> <<" ">> \o s \o <<"\n", "\t">>
      [] how = "padded upper" -> <<"\t", " ">> \o StrUpper(s) \o <<" ">>

LabelInit == cl_calls = <<>>

\* canonical_label called with None
ClCallNone ==
    /\ Len(cl_calls) < MaxClCalls
    /\ cl_calls' = Append(cl_calls,
                          [from |-> <<>>, how |-> "none", raw |-> PyNone,
                           result |-> CanonicalLabel(PyNone)])
    /\ UNCHANGED notLabel

\* canonical_label called with a str
ClCallStr ==
    /\ Len(cl_calls) < MaxClCalls
    /\ \E s \in CANONICAL_LABELS \cup DOMAIN ID_MAP \cup DOMAIN SYNONYMS
                  \cup UnknownLabels \cup {<<>>},
          how \in Writings :
         LET raw == PyStr(Written(s, how))
         IN  cl_calls' = Append(cl_calls,
                                [from |-> s, how |-> how, raw |-> raw,
                                 result |-> CanonicalLabel(raw)])
    /\ UNCHANGED notLabel

LabelNext == ClCallNone \/ ClCallStr

(***************************************************************************)
(* EmotionAudioBuffer (audio/emotion_buffer.py, lines 4-31) with a window  *)
(* of one second at EbSampleRate samples per second.  Seconds are counted  *)
(* in half sample periods, so that half a window is EbSampleRate units and *)
(* a sample is 2 units.                                                    *)
(***************************************************************************)
EbBytesPerSample == 2

\* _target_size (line 9)
EbTargetSize == EbSampleRate * EbBytesPerSample

\* push (lines 13-31) of pcm_len bytes on a buffer of len bytes with
\* _buffered_sec buffered: what it leaves, whether it returns a window, and
\* the center offset it returns with it
EmotionPush(len, buffered, pcm_len) ==
    LET len1 == len + pcm_len
        samples == pcm_len \div EbBytesPerSample
        buffered1 == buffered + 2 * samples
    IN  IF len1 >= EbTargetSize
        THEN [len |-> len1 - (EbTargetSize \div 2),
              buffered |-> buffered1 - EbSampleRate,
              window |-> TRUE,
              center_offset |-> buffered1 - EbSampleRate]
        ELSE [len |-> len1, buffered |-> buffered1, window |-> FALSE,
              center_offset |-> 0]

EmotionBufInit ==
    /\ eb_len = 0
    /\ eb_buffered = 0
    /\ eb_pushes = 0
    /\ eb_windows = <<>>

\* AudioObserverTrack.recv (tracks/audio_observer.py, lines 43-55): one
\* resampled frame is pushed
EbPush ==
    /\ eb_pushes < MaxEbPushes
    /\ \E pcm_len \in 0..MaxEbPushLen :
         LET r == EmotionPush(eb_len, eb_buffered, pcm_len)
         IN  /\ eb_len' = r.len
             /\ eb_buffered' = r.buffered
             /\ eb_windows' = IF r.window
                              THEN Append(eb_windows, r.center_offset)
                              ELSE eb_windows
    /\ eb_pushes' = eb_pushes + 1
    /\ UNCHANGED notEmotionBuf

EmotionBufNext == EbPush

(***************************************************************************)
(* GoogleStreamingSttSession between its threads (audio/google_stt.py).    *)
(* push_audio and close run in the caller's thread or threads, start and   *)
(* the generator it hands to streaming_recognize in the worker thread that *)
(* _start_new_session creates.  No lock is taken: every line that reads or *)
(* writes closed or audio_queue is a step of its own.                      *)
(***************************************************************************)
\* the preload the session was created with: one chunk of overlap
GsPreload == <<Chunk(MaxGsPushes + 1)>>

GoogleSessionInit ==
    /\ gs_audio_queue = <<>>
    /\ gs_closed = FALSE
    /\ gs_gen = "preload"
    /\ gs_push = "idle"
    /\ gs_close = "idle"
    /\ gs_calls = 0
    /\ gs_put = <<>>
    /\ gs_before_close = <<>>
    /\ gs_yielded = <<>>

\* _audio_generator, lines 56-61: the preload chunks are yielded
GsGenPreload ==
    /\ gs_gen = "preload"
    /\ gs_yielded' = gs_yielded \o GsPreload
    /\ gs_gen' = "test"
    /\ UNCHANGED <<gs_audio_queue, gs_closed, gs_push, gs_close, gs_calls,
                   gs_put, gs_before_close, notGoogleSession>>

\* _audio_generator, line 63: while not self.closed
GsGenTest ==
    /\ gs_gen = "test"
    /\ gs_gen' = IF gs_closed THEN "done" ELSE "get"
    /\ UNCHANGED <<gs_audio_queue, gs_closed, gs_push, gs_close, gs_calls,
                   gs_put, gs_before_close, gs_yielded, notGoogleSession>>

\* _audio_generator, lines 64-68: the blocking get returns an item; None ends
\* the generator, a chunk is yielded
GsGenGet ==
    /\ gs_gen = "get"
    /\ gs_audio_queue # <<>>
    /\ gs_audio_queue' = Tail(gs_audio_queue)
    /\ IF Head(gs_audio_queue) = Sentinel
       THEN gs_gen' = "done" /\ UNCHANGED gs_yielded
       ELSE /\ gs_gen' = "test"
            /\ gs_yielded' = Append(gs_yielded, Head(gs_audio_queue))
    /\ UNCHANGED <<gs_closed, gs_push, gs_close, gs_calls, gs_put,
                   gs_before_close, notGoogleSession>>

\* push_audio, line 123: if not self.closed
GsPushTest ==
    /\ gs_push = "idle"
    /\ gs_calls < MaxGsPushes
    /\ gs_calls' = gs_calls + 1
    /\ gs_push' = IF ~gs_closed THEN "put" ELSE "idle"
    /\ UNCHANGED <<gs_audio_queue, gs_closed, gs_gen, gs_close, gs_put,
                   gs_before_close, gs_yielded, notGoogleSession>>

\* push_audio, line 124: self.audio_queue.put(pcm_chunk)
GsPushPut ==
    /\ gs_push = "put"
    /\ gs_audio_queue' = Append(gs_audio_queue, Chunk(gs_calls))
    /\ gs_put' = Append(gs_put, Chunk(gs_calls))
    /\ gs_push' = "idle"
    /\ UNCHANGED <<gs_closed, gs_gen, gs_close, gs_calls, gs_before_close,
                   gs_yielded, notGoogleSession>>

\* close, line 134: self.closed = True
GsCloseFlag ==
    /\ gs_close = "idle"
    /\ gs_closed' = TRUE
    /\ gs_before_close' = gs_put
    /\ gs_close' = "flagged"
    /\ UNCHANGED <<gs_audio_queue, gs_gen, gs_push, gs_calls, gs_put,
                   gs_yielded, notGoogleSession>>

\* close, line 135: self.audio_queue.put(None)
GsClosePut ==
    /\ gs_close = "flagged"
    /\ gs_audio_queue' = Append(gs_audio_queue, Sentinel)
    /\ gs_close' = "done"
    /\ UNCHANGED <<gs_closed, gs_gen, gs_push, gs_calls, gs_put,
                   gs_before_close, gs_yielded, notGoogleSession>>

GoogleSessionNext ==
    GsGenPreload \/ GsGenTest \/ GsGenGet \/ GsPushTest \/ GsPushPut
        \/ GsCloseFlag \/ GsClosePut

(***************************************************************************)
(* WebRTCConnectionHandler (api/server.py:32-146): the track event starts  *)
(* a processor for the track and registers the track's ended handler.      *)
(***************************************************************************)
TrackKinds == {"video", "audio"}

HtTracks == 1..MaxHtTracks

HandlerInit ==
    /\ ht_kind = <<>>
    /\ ht_processor = 0
    /\ ht_running = {}
    /\ ht_stopping = [t \in HtTracks |-> 0]
    /\ ht_handled = {}

\* _handle_track (lines 63-85): the processor made for the track, of either
\* class, is assigned to self.processor and started
HtHandleTrack ==
    /\ Len(ht_kind) < MaxHtTracks
    /\ \E kind \in TrackKinds : ht_kind' = Append(ht_kind, kind)
    /\ ht_processor' = Len(ht_kind) + 1
    /\ ht_running' = ht_running \cup {Len(ht_kind) + 1}
    /\ UNCHANGED <<ht_stopping, ht_handled, notHandler>>

\* on_ended of track t, _handle_track_ended up to its first suspension
\* (lines 123-127): stop() of the processor self.processor refers to is
\* called and awaited
HtEndedBegin ==
    \E t \in 1..Len(ht_kind) :
        /\ ht_stopping[t] = 0
        /\ t \notin ht_handled
        /\ ht_stopping' = [ht_stopping EXCEPT ![t] = ht_processor]
        /\ UNCHANGED <<ht_kind, ht_processor, ht_running, ht_handled,
                       notHandler>>

\* BaseProcessor.stop (stream/frame_processor.py) has ended the task of its
\* processor and returns to the handler
HtEndedStopped ==
    \E t \in 1..Len(ht_kind) :
        /\ ht_stopping[t] # 0
        /\ ht_running' = ht_running \ {ht_stopping[t]}
        /\ ht_stopping' = [ht_stopping EXCEPT ![t] = 0]
        /\ ht_handled' = ht_handled \cup {t}
        /\ UNCHANGED <<ht_kind, ht_processor, notHandler>>

HandlerNext == HtHandleTrack \/ HtEndedBegin \/ HtEndedStopped

(***************************************************************************)
(* The task of a processor under stop() (stream/frame_processor.py:40-51,  *)
(* 93-110, stream/audio_processor.py:146-209, utils/emitter.py:21-43).    *)
(* The task is followed from one suspension point to the next; an         *)
(* exception thrown in at a suspension point travels through the except   *)
(* clauses that enclose that point, innermost first.                      *)
(***************************************************************************)
ProcessorKinds == {"video", "audio"}

\* isinstance(exc, cls) for the two exceptions the model throws.  The code
\* needs Python 3.10 (X | None annotations), where asyncio.CancelledError
\* derives from BaseException and not from Exception.
IsInstanceCancelledIsException(exc, cls) ==
    \/ cls = "BaseException"
    \/ cls = "Exception"
    \/ exc = cls

IsInstance(exc, cls) ==
    \/ cls = "BaseException"
    \/ exc = cls
    \/ exc = "RuntimeError" /\ cls = "Exception"

\* an except clause: its name, the class it names and what follows its body
Handler(name, cls, then) == [name |-> name, cls |-> cls, then |-> then]

\* audio_processor.py: the clauses of _run (lines 161-166) and of
\* _process_window (lines 184-186, 205-206, 208-209)
LoopHandlers ==
    <<Handler("loopCancelled", "CancelledError", "break"),
      Handler("loopException", "Exception", "continue")>>

WindowOuter == Handler("windowOuter", "Exception", "continue")

\* the except clauses around a suspension point, innermost first
HandlerStack(kind, pc) ==
    IF kind = "audio"
    THEN CASE pc = "get"    -> LoopHandlers
           [] pc = "thread" -> <<Handler("windowSync", "Exception", "continue"),
                                 WindowOuter>> \o LoopHandlers
           [] pc = "emit"   -> <<Handler("windowEmit", "Exception", "continue"),
                                 WindowOuter>> \o LoopHandlers
           [] OTHER         -> <<>>
    ELSE CASE pc = "thread" -> <<Handler("frameError", "Exception", "error_emit")>>
           [] pc = "emit"   -> <<Handler("safeEmit", "Exception", "continue"),
                                 Handler("frameError", "Exception", "error_emit")>>
           [] pc = "emit_error" -> <<Handler("safeEmit", "Exception", "continue")>>
           [] OTHER         -> <<>>

\* the clause that catches exc thrown at pc, or its propagation out of _run
Throw(kind, pc, exc) ==
    LET st == HandlerStack(kind, pc)
        hits == {i \in 1..Len(st) : IsInstance(exc, st[i].cls)}
    IN  IF hits = {} THEN Handler("none", exc, "propagate")
        ELSE st[CHOOSE i \in hits : \A j \in hits : i <= j]

\* while not self._stop (frame_processor.py:95, audio_processor.py:149),
\* then the await of the buffer
LoopTop(stop) == IF stop THEN "done" ELSE "get"

\* the task after exc was thrown into it at cx_pc
CxThrow(exc) ==
    LET h == Throw(cx_kind, cx_pc, exc)
        next == CASE h.then = "break"      -> "done"
                  [] h.then = "continue"   -> LoopTop(cx_stop)
                  [] h.then = "error_emit" -> "emit_error"
                  [] OTHER                 -> "done"
    IN  /\ cx_pc' = next
        /\ cx_outcome' =
              IF next # "done" THEN cx_outcome
              ELSE IF h.then # "propagate" THEN "returned"
              ELSE IF exc = "CancelledError" THEN "cancelled" ELSE "raised"
        /\ cx_caught' = IF exc = "CancelledError" /\ h.name # "none"
                        THEN cx_caught \cup {h.name} ELSE cx_caught

CancelInit ==
    /\ cx_kind = "none"
    /\ cx_pc = "none"
    /\ cx_stop = FALSE
    /\ cx_cancel = FALSE
    /\ cx_outcome = "none"
    /\ cx_stop_pc = "idle"
    /\ cx_items = 0
    /\ cx_stopped_at = "none"
    /\ cx_caught = {}

\* BaseProcessor.start (lines 40-42): asyncio.create_task(self._run(emitter))
CxStart ==
    /\ cx_pc = "none"
    /\ cx_stop_pc = "idle"
    /\ \E kind \in ProcessorKinds : cx_kind' = kind
    /\ cx_pc' = "created"
    /\ UNCHANGED <<cx_stop, cx_cancel, cx_outcome, cx_stop_pc, cx_items,
                   cx_stopped_at, cx_caught, notCancel>>

\* the event loop runs the task for the first time, up to its first await
CxBegin ==
    /\ cx_pc = "created"
    /\ ~cx_cancel
    /\ cx_pc' = LoopTop(cx_stop)
    /\ cx_outcome' = IF cx_stop THEN "returned" ELSE cx_outcome
    /\ UNCHANGED <<cx_kind, cx_stop, cx_cancel, cx_stop_pc, cx_items,
                   cx_stopped_at, cx_caught, notCancel>>

\* the buffer hands over: get_many returns n frames (audio_processor.py
\* lines 151-159, 175-183), get returns a frame (frame_processor.py 96-107)
CxGot ==
    /\ cx_pc = "get"
    /\ ~cx_cancel
    /\ cx_items < MaxCxItems
    /\ cx_items' = cx_items + 1
    /\ \E n \in 0..2 :
         cx_pc' = IF cx_kind = "video" THEN "thread"
                  ELSE IF n = 0 THEN LoopTop(cx_stop)
                  ELSE IF n = 1 THEN "emit"
                  ELSE "thread"
    /\ cx_outcome' = IF cx_pc' = "done" THEN "returned" ELSE cx_outcome
    /\ UNCHANGED <<cx_kind, cx_stop, cx_cancel, cx_stop_pc, cx_stopped_at,
                   cx_caught, notCancel>>

\* asyncio.to_thread (audio_processor.py:181) or infer_image
\* (frame_processor.py:107) returns, and the event is handed to the emitter
CxThreadDone ==
    /\ cx_pc = "thread"
    /\ ~cx_cancel
    /\ cx_pc' = "emit"
    /\ UNCHANGED <<cx_kind, cx_stop, cx_cancel, cx_outcome, cx_stop_pc,
                   cx_items, cx_stopped_at, cx_caught, notCancel>>

\* the emitter returns (audio_processor.py:204, emitter.py:34-36)
CxEmitDone ==
    /\ cx_pc \in {"emit", "emit_error"}
    /\ ~cx_cancel
    /\ cx_pc' = LoopTop(cx_stop)
    /\ cx_outcome' = IF cx_stop THEN "returned" ELSE cx_outcome
    /\ UNCHANGED <<cx_kind, cx_stop, cx_cancel, cx_stop_pc, cx_items,
                   cx_stopped_at, cx_caught, notCancel>>

\* the off-loop work or the emitter raises an ordinary error
CxItemFails ==
    /\ cx_pc \in {"thread", "emit", "emit_error"}
    /\ ~cx_cancel
    /\ CxThrow("RuntimeError")
    /\ UNCHANGED <<cx_kind, cx_stop, cx_cancel, cx_stop_pc, cx_items,
                   cx_stopped_at, notCancel>>

\* BaseProcessor.stop, lines 44-49, up to `await self._task`
CxStop ==
    /\ cx_stop_pc = "idle"
    /\ cx_pc \notin {"none", "done"}
    /\ cx_stop' = TRUE
    /\ cx_cancel' = TRUE
    /\ cx_stop_pc' = "awaiting"
    /\ cx_stopped_at' = cx_pc
    /\ UNCHANGED <<cx_kind, cx_pc, cx_outcome, cx_items, cx_caught, notCancel>>

\* the event loop throws CancelledError into the task where it is suspended
CxDeliverCancel ==
    /\ cx_cancel
    /\ cx_pc \notin {"none", "done"}
    /\ cx_cancel' = FALSE
    /\ CxThrow("CancelledError")
    /\ UNCHANGED <<cx_kind, cx_stop, cx_stop_pc, cx_items, cx_stopped_at,
                   notCancel>>

\* BaseProcessor.stop, lines 49-51: the awaited task has ended; its
\* CancelledError is caught, any other exception of the task leaves stop()
CxStopReturn ==
    /\ cx_stop_pc = "awaiting"
    /\ cx_pc = "done"
    /\ cx_stop_pc' = IF cx_outcome = "raised" THEN "raised" ELSE "returned"
    /\ UNCHANGED <<cx_kind, cx_pc, cx_stop, cx_cancel, cx_outcome, cx_items,
                   cx_stopped_at, cx_caught, notCancel>>

CancelNext ==
    CxStart \/ CxBegin \/ CxGot \/ CxThreadDone \/ CxEmitDone \/ CxItemFails
        \/ CxStop \/ CxDeliverCancel \/ CxStopReturn

Init ==
    /\ VideoInit /\ AudioInit /\ GetManyInit /\ ChunkerInit /\ OverlapInit
    /\ SttInit
    /\ ObserverInit
    /\ EmitInit
    /\ CountersInit
    /\ RegistryInit
    /\ AudioProcInit
    /\ VideoProcInit
    /\ TrackEndInit
    /\ AudioLoopInit
    /\ EmotionWindowInit
    /\ SamplerInit
    /\ LabelInit
    /\ EmotionBufInit
    /\ GoogleSessionInit
    /\ HandlerInit
    /\ CancelInit

SpecVideo == Init /\ [][VideoNext]_vars

SpecAudio == Init /\ [][AudioNext]_vars

SpecGetMany == Init /\ [][GetManyNext]_vars

SpecChunker == Init /\ [][ChunkerNext]_vars

SpecOverlap == Init /\ [][OverlapNext]_vars

SpecStt == Init /\ [][SttNext]_vars

SpecSttFail == Init /\ [][SttFailNext]_vars

SpecObserver == Init /\ [][ObserverNext]_vars

SpecEmit == Init /\ [][EmitNext]_vars

SpecCounters == Init /\ [][CountersNext]_vars

SpecRegistry == Init /\ [][RegistryNext]_vars

SpecAudioProc == Init /\ [][AudioProcNext]_vars

SpecVideoProc == Init /\ [][VideoProcNext]_vars

SpecTrackEnd == Init /\ [][TrackEndNext]_vars

SpecAudioLoop == Init /\ [][AudioLoopNext]_vars

SpecEmotionWindow == Init /\ [][EmotionWindowNext]_vars

SpecSampler == Init /\ [][SamplerNext]_vars

SpecSamplerThreads == Init /\ [][SamplerThreadsNext]_vars

SpecLabel == Init /\ [][LabelNext]_vars

SpecEmotionBuf == Init /\ [][EmotionBufNext]_vars

SpecGetManyDrain == Init /\ [][GetManyDrainNext]_vars

\* one recognizer session, its pushing and closing callers and its worker
SpecGoogleSession == Init /\ [][GoogleSessionNext]_vars

\* a connection handler, the tracks it receives and their ends
SpecHandler == Init /\ [][HandlerNext]_vars

\* a processor task and stop(); the event loop runs a task that is ready, so
\* a pending cancellation is delivered and a caller whose awaited task has
\* ended is resumed
SpecCancel ==
    Init /\ [][CancelNext]_vars
        /\ WF_vars(CxDeliverCancel) /\ WF_vars(CxStopReturn)

(***************************************************************************)
(* The claims.                                                             *)
(***************************************************************************)
RECURSIVE Flatten(_)
Flatten(ss) == IF ss = <<>> THEN <<>> ELSE Head(ss) \o Flatten(Tail(ss))

\* C1: after any sequence of AudioBufferBroadcast.put calls, every downstream
\* buffer has been handed every AudioFrame that was put, also when an earlier
\* buffer of the list was full and evicted a frame.
BroadcastReachesEveryBuffer == \A b \in BufferIds : a_recv[b] = a_bcast

\* C2: in every state reachable by put and get calls, the VideoBuffer holds
\* at most one frame.
VideoAtMostOneFrame == Len(vq) <= 1

VideoAtMostOneFrameWitness ==
    v_discards >= 2 /\ Len(vq) = 1 /\ v_got # <<>>

\* C3: a put on a full VideoBuffer discards the resident frame and makes the
\* new frame resident: the resident frame is always the last frame put, and a
\* get that follows a non-empty run of puts has returned the last frame put.
VideoGetReturnsLastPut ==
    /\ vq # <<>> => Head(vq).id = v_puts
    /\ (vq = <<>> /\ v_got # <<>>) => Last(v_got).id = v_puts

VideoGetReturnsLastPutWitness ==
    vq = <<>> /\ Len(v_got) = 1 /\ v_puts >= 3

\* C4: dropped_count grows by one for each put that discards a resident
\* frame, so once the buffer is drained dropped_count plus the number of
\* frames returned by get equals the number of puts.
VideoDroppedPlusGot ==
    /\ dropped_count = v_discards
    /\ vq = <<>> => dropped_count + Len(v_got) = v_puts

GetManyWithinTimeout ==
    gm_pc = "done" => gm_returned_at - gm_start <= gm_timeout

\* C7: every chunk PcmChunker.push has returned is exactly chunk_bytes long,
\* and after each push the retained buffer is shorter than chunk_bytes.
ChunkerExactChunks ==
    /\ \A i \in 1..Len(ch_out) : Len(ch_out[i]) = chunk_bytes
    /\ Len(ch_buffer) < chunk_bytes

ChunkerExactChunksWitness ==
    Len(ch_out) >= 2 /\ ch_buffer # <<>> /\ ch_pushes >= 2

\* C8: the chunks returned so far, in order, followed by the retained
\* residue are the bytes pushed so far, in order.
ChunkerConservesBytes == Flatten(ch_out) \o ch_buffer = ch_in

ChunkerConservesBytesWitness ==
    /\ Len(ch_out) >= 2
    /\ ch_buffer # <<>>
    /\ \E i, j \in 1..Len(ch_in) : ch_in[i] # ch_in[j]

\* C9: after n pushes on an AudioOverlapBuffer of capacity c the buffer, and
\* the list get_overlap returns, are the last min(n, c) chunks pushed, in
\* arrival order; a list returned after n pushes still shows the last
\* min(n, c) of those n chunks whatever is pushed later.
OverlapLastChunks ==
    /\ ob_buffer = LastN(ob_pushed, Min(Len(ob_pushed), OverlapChunks))
    /\ \A i \in 1..Len(ob_snaps) :
         LET n == ob_snaps[i].n
             got == Items(ob_snaps[i].list, ob_buffer)
         IN  /\ got = LastN(SubSeq(ob_pushed, 1, n), Min(n, OverlapChunks))
             /\ Len(got) <= OverlapChunks

OverlapLastChunksWitness ==
    \E i \in 1..Len(ob_snaps) :
        /\ ob_snaps[i].n > OverlapChunks
        /\ Len(ob_pushed) > ob_snaps[i].n

\* C10: every recognizer session was created at or after a chunk for which
\* is_speech returned true, and every chunk in a recognizer queue arrived at
\* or after such a chunk.
SpeechSeenBy(n) == \E j \in 1..n : s_vad[j]

VadGate ==
    \A i \in 1..Len(sessions) :
        /\ SpeechSeenBy(sessions[i].created)
        /\ \A k \in 1..Len(sessions[i].audio_queue) :
             LET c == sessions[i].audio_queue[k]
             IN  c # Sentinel => SpeechSeenBy(c.id)

VadGateWitness ==
    /\ Len(s_vad) >= 3
    /\ ~s_vad[1] /\ ~s_vad[2]
    /\ sessions # <<>>
    /\ sessions[1].created = 3
    /\ sessions[1].audio_queue # <<>>

\* the chunks numbered a..b, in order of arrival
ChunksFromTo(a, b) == [k \in 1..(b - a + 1) |-> Chunk(a + k - 1)]

\* C11: every chunk seen is in the overlap buffer, speech or not and session
\* or not, so the first recognizer session is preloaded with the last (up to
\* capacity) chunks that arrived up to speech onset, the non-speech chunks
\* before the first speech chunk included.
PreloadCoversOnset ==
    /\ overlap_buffer = LastN(ChunksFromTo(1, Len(s_vad)),
                              Min(Len(s_vad), OverlapChunks))
    /\ sessions # <<>> =>
         Items(sessions[1].preload_chunks, overlap_buffer)
             = LastN(ChunksFromTo(1, sessions[1].created),
                     Min(sessions[1].created, OverlapChunks))

\* C12: whatever STT_MAX_DURATION_SEC is set to, a chunk pushed while the
\* current session is at least that old closes that session (closed flag
\* set, sentinel enqueued) and is forwarded to a new session, created at
\* that chunk and preloaded with the overlap snapshot taken then.
RotationAtMaxDuration ==
    \A n \in 1..Len(s_hist) :
        (s_hist[n].cur # 0 /\ s_hist[n].due # {}) =>
            /\ sessions[s_hist[n].cur].closed
            /\ \E k \in 1..Len(sessions[s_hist[n].cur].audio_queue) :
                 sessions[s_hist[n].cur].audio_queue[k] = Sentinel
            /\ \E j \in 1..Len(sessions) :
                 /\ j > s_hist[n].cur
                 /\ sessions[j].created = n
                 /\ Items(sessions[j].preload_chunks, overlap_buffer)
                        = OverlapPush(s_hist[n].overlap, Chunk(n))
                 /\ \E k \in 1..Len(sessions[j].audio_queue) :
                      sessions[j].audio_queue[k] = Chunk(n)

\* the chunks handed to a session for its recognizer, in the order in which
\* _audio_generator (audio/google_stt.py:55-68) yields them: the preload,
\* then the queue up to the sentinel
RECURSIVE UpToSentinel(_)
UpToSentinel(q) ==
    IF q = <<>> \/ Head(q) = Sentinel THEN <<>>
    ELSE <<Head(q)>> \o UpToSentinel(Tail(q))

Delivered(s) == Items(s.preload_chunks, overlap_buffer)
                    \o UpToSentinel(s.audio_queue)

\* C13: the chunks delivered to a session opened by a rotation are the
\* overlap snapshot taken at the rotation followed by the chunks that
\* arrived after it, each of them once.
BoundaryContinuity ==
    \A j \in 2..Len(sessions) :
        /\ \A a, b \in 1..Len(Delivered(sessions[j])) :
             a # b => Delivered(sessions[j])[a] # Delivered(sessions[j])[b]
        /\ \A k \in 1..Len(UpToSentinel(sessions[j].audio_queue)) :
             UpToSentinel(sessions[j].audio_queue)[k].id > sessions[j].created

\* C14: once the recognizer stream of a session has failed and a speech
\* chunk has been pushed after the failure, the failed session is closed, a
\* new session was opened after the failure, and no chunk that arrived after
\* the failure is in the queue of the failed session.
FailedSessionReplaced ==
    \A i \in 1..Len(sessions) :
        (/\ sessions[i].failed
         /\ \E n \in (sessions[i].failed_at + 1)..Len(s_vad) :
              s_vad[n] /\ s_hist[n].cur = i) =>
            /\ sessions[i].closed
            /\ \E j \in 1..Len(sessions) :
                 sessions[j].created > sessions[i].failed_at
            /\ \A k \in 1..Len(sessions[i].audio_queue) :
                 sessions[i].audio_queue[k].id <= sessions[i].failed_at

\* C15: the queue of a session never holds more than a fixed number of
\* chunks.
SessionQueueBounded ==
    \A i \in 1..Len(sessions) :
        Len(sessions[i].audio_queue) <= SessionQueueCap

\* C16: for every event a processor produced, the HTTP sink and the
\* DataChannel sink were each attempted exactly once.
DualDispatch ==
    \A i \in 1..Len(o_events) :
        o_events[i].http = 1 /\ o_events[i].dc = 1

\* C17: with the HTTP sink down, a detection event dispatched while the
\* channel is open is still delivered on the DataChannel, and the dispatch of
\* the events after it goes on.
HttpDownKeepsDataChannel ==
    \A i \in 1..Len(o_events) :
        (/\ o_events[i].kind = "object"
         /\ o_events[i].http_down /\ o_events[i].ready = "open") =>
            o_events[i].delivered = 1 /\ ~o_events[i].aborted

RegistryEntryOrClosed ==
    \A i \in 1..Len(r_all) :
        r_map[r_all[i].correlation_id] = i \/ r_all[i].closed_at_set

\* C22: close(id) on a registered id removes the entry, so that a following
\* get(id) returns None, and calls Session.close on it exactly once;
\* close(id) on an absent id raises nothing, closes nothing and leaves the
\* registry unchanged.
RegistryCloseRemovesOnce ==
    \A k \in 1..Len(r_closes) :
        LET c == r_closes[k]
        IN  /\ ~c.raised
            /\ c.get_after = 0
            /\ c.entry # 0 =>
                 /\ c.after.all[c.entry].closes
                       = c.before.all[c.entry].closes + 1
                 /\ c.after.all[c.entry].closed_at_set
                 /\ \A i \in 1..Len(c.before.all) :
                      i # c.entry => c.after.all[i] = c.before.all[i]
                 /\ \A id \in RegIds :
                      id # c.id => c.after.map[id] = c.before.map[id]
            /\ c.entry = 0 => c.after = c.before

RegistryCloseRemovesOnceWitness ==
    \E j, k \in 1..Len(r_closes) :
        /\ j < k
        /\ r_closes[j].id = r_closes[k].id
        /\ r_closes[j].entry # 0
        /\ r_closes[j].before.all[r_closes[j].entry].data_channel = "open"
        /\ r_closes[k].entry = 0

\* C23: once stop() of the AudioProcessor has returned, neither sub-processor
\* is still running (or waiting to run) and no call of the emitter by a
\* sub-processor happens after the return.
SubProcessorsStopWithParent ==
    ap_returned =>
        /\ \A n \in SubNames : ap_subs[n].task \notin {"pending", "running"}
        /\ \A i \in 1..Len(ap_emits) : ~ap_emits[i].after_stop

\* C24: a frame whose decoding or inference raised does not end the loop of
\* the VideoProcessor: while stop() has not been called the task is still
\* running after it, so the frames taken later are processed.
FrameFailureKeepsLoop ==
    (/\ ~vp_stop
     /\ \E i \in 1..Len(vp_log) : vp_log[i].frame.fails # "none")
        => vp_task = "running"

FrameFailureKeepsLoopWitness ==
    /\ ~vp_stop
    /\ \E i, j \in 1..Len(vp_log) :
        /\ i < j
        /\ vp_log[i].frame.fails = "infer"
        /\ vp_log[i].emitter_raised
        /\ vp_log[j].frame.fails = "none"
        /\ vp_log[j].events # <<>>

\* C25: for a frame whose processing failed the VideoProcessor passes no
\* event at all to the emitter.
FailedFrameIsSilent ==
    \A i \in 1..Len(vp_log) :
        vp_log[i].frame.fails # "none" => vp_log[i].events = <<>>

\* C26: for a processed frame the emitter is called once per well-formed
\* detection, in the order of the detections, every event with the same
\* frameIndex; a malformed detection takes away only its own event.
OneEventPerWellFormedDetection ==
    \A i \in 1..Len(vp_log) :
        vp_log[i].frame.fails = "none" =>
            LET dets == vp_log[i].frame.detections
                evs == vp_log[i].events
                good == {j \in 1..Len(dets) : dets[j].valid}
            IN  /\ Len(evs) = Cardinality(good)
                /\ \A k \in 1..Len(evs) :
                    /\ evs[k].event_type = "object"
                    /\ evs[k].label \in {dets[j].cls : j \in good}
                    /\ evs[k].frameIndex = vp_log[i].frame_index
                /\ \A k1, k2 \in 1..Len(evs) :
                    k1 < k2 => evs[k1].label < evs[k2].label

OneEventPerWellFormedDetectionWitness ==
    \E i \in 1..Len(vp_log) :
        /\ vp_log[i].frame.fails = "none"
        /\ Len(vp_log[i].frame.detections) = 3
        /\ vp_log[i].frame.detections[1].valid
        /\ ~vp_log[i].frame.detections[2].valid
        /\ vp_log[i].frame.detections[3].valid
        /\ Len(vp_log[i].events) = 2

\* C27: the k-th frame taken from the VideoBuffer gets frame_index k, whether
\* it is processed, fails or has no detections, and the events of two
\* different frames never carry the same frameIndex.
FrameIndexIsArrivalNumber ==
    /\ \A k \in 1..Len(vp_log) : vp_log[k].frame_index = k
    /\ \A k1, k2 \in 1..Len(vp_log) :
        (/\ k1 # k2
         /\ vp_log[k1].frame.fails = "none"
         /\ vp_log[k2].frame.fails = "none")
            => \A a \in 1..Len(vp_log[k1].events),
                  b \in 1..Len(vp_log[k2].events) :
                   vp_log[k1].events[a].frameIndex
                       # vp_log[k2].events[b].frameIndex

\* C28: when a track ends while the data channel is open, one stream_closed
\* message is sent whose summary has the session's counters at that moment,
\* and the peer connection is closed and no longer tracked.
StreamClosedSummary ==
    \A i \in 1..Len(te_ended) :
        te_ended[i].channel = "open" =>
            /\ Len(te_sent) = 1
            /\ te_sent[1].event_type = "stream_closed"
            /\ te_sent[1].summary =
                   [total_frames_received |->
                        te_ended[i].session.total_received,
                    total_frames_processed |->
                        te_ended[i].session.frame_count,
                    total_frames_dropped |->
                        te_ended[i].session.dropped_count,
                    total_detections |->
                        te_ended[i].session.detection_count]
            /\ te_pc_closed
            /\ ~te_tracked

\* C29: in either audio loop every non-empty batch get_many returned went to
\* _process_window exactly once, an empty batch went to none, and the loop is
\* still running after any of them.
BatchProcessedOnce ==
    \A n \in SubNames :
        /\ lp_running[n]
        /\ \A i \in 1..Len(lp_turns[n]) :
            LET t == lp_turns[n][i]
            IN  /\ t.batch = <<>> => t.windows = <<>>
                /\ t.batch # <<>> =>
                       Len(t.windows) = 1 /\ t.windows[1] = t.batch

BatchProcessedOnceWitness ==
    \A n \in SubNames :
        \E i, j \in 1..Len(lp_turns[n]) :
            /\ i < j
            /\ lp_turns[n][i].batch = <<>>
            /\ lp_turns[n][j].batch # <<>>
            /\ lp_turns[n][j].windows = <<lp_turns[n][j].batch>>

\* C30: when _process_window_sync has returned or raised, no temporary WAV
\* file made for that window exists any more, whatever failed.
TempWavDeleted ==
    /\ ew_files = {}
    /\ \A i \in 1..Len(ew_calls) : ew_calls[i].left = {}

\* the number of true returns whose instant lies in the window [from, from + T]
FsTrueIn(from, T) ==
    Cardinality({i \in 1..Len(fs_returns) :
                     /\ fs_returns[i].result
                     /\ fs_returns[i].now >= from
                     /\ fs_returns[i].now <= from + T})

\* C31: with calls one after another, two true returns of should_process are
\* at least one interval apart, and a window of T ticks holds at most
\* ceil(T / interval) + 1 of them.
SamplerRateLimit ==
    /\ \A i, j \in 1..Len(fs_returns) :
        (i < j /\ fs_returns[i].result /\ fs_returns[j].result)
            => fs_returns[j].now - fs_returns[i].now >= FsInterval
    /\ \A from \in 0..(FsInterval + MaxFsTime), T \in 0..MaxFsTime :
        FsTrueIn(from, T) <= ((T + FsInterval - 1) \div FsInterval) + 1

SamplerRateLimitWitness ==
    \E i, j, k \in 1..Len(fs_returns) :
        /\ i < j /\ j < k
        /\ fs_returns[i].result
        /\ ~fs_returns[j].result /\ fs_returns[j].now > fs_returns[i].now
        /\ fs_returns[k].result
        /\ fs_returns[k].now = fs_returns[i].now + FsInterval

\* C32: of two calls by different threads that read the clock within one
\* interval of each other, at most one returns true.
SamplerThreadSafe ==
    \A i, j \in 1..Len(fs_returns) :
        (/\ fs_returns[i].thread # fs_returns[j].thread
         /\ fs_returns[i].now <= fs_returns[j].now
         /\ fs_returns[j].now - fs_returns[i].now < FsInterval)
            => ~(fs_returns[i].result /\ fs_returns[j].result)

\* C33: canonical_label gives a canonical label itself, a synonym and a
\* numeric id their canonical label, however the argument is cased and
\* padded, and None for every other string, the empty string and None; a
\* result that is not None is canonical and is its own canonical label.
CanonicalLabelNormalizes ==
    \A i \in 1..Len(cl_calls) :
        LET c == cl_calls[i]
        IN  /\ c.how # "none" /\ c.from \in CANONICAL_LABELS
                => c.result = PyStr(c.from)
            /\ c.how # "none" /\ c.from \in DOMAIN SYNONYMS
                => c.result = PyStr(SYNONYMS[c.from])
            /\ c.how # "none" /\ c.from \in DOMAIN ID_MAP
                => c.result = PyStr(ID_MAP[c.from])
            /\ c.how = "none" \/ c.from \in UnknownLabels \cup {<<>>}
                => c.result = PyNone
            /\ c.result = PyNone \/ c.result.chars \in CANONICAL_LABELS
            /\ c.result # PyNone => CanonicalLabel(c.result) = c.result

CanonicalLabelNormalizesWitness ==
    \E i \in 1..Len(cl_calls) :
        /\ cl_calls[i].how = "padded upper"
        /\ cl_calls[i].from \in DOMAIN SYNONYMS
        /\ cl_calls[i].result.chars \in CANONICAL_LABELS

\* C34: the center offset push returns with a window is greater than the
\* one it returned with the window before.
CenterOffsetsIncrease ==
    \A k \in 1..(Len(eb_windows) - 1) : eb_windows[k + 1] > eb_windows[k]

\* the total duration of the frames of a list
RECURSIVE TotalDur(_)
TotalDur(frames) ==
    IF frames = <<>> THEN 0 ELSE Head(frames).dur + TotalDur(Tail(frames))

\* C35: every frame get_many collects is the oldest frame the buffer holds
\* and is the one frame removed by that step; get_many collects no frame
\* once the accumulated duration has reached retrive_duration, so every
\* proper prefix of its list is shorter than that; and a get after the call
\* returns the oldest of the frames that were left.
GetManyFifoStep ==
    LET q == aq[GmBuffer]
    IN  /\ gm_pc # "idle" /\ gm_items' # gm_items =>
               /\ q # <<>>
               /\ gm_items' = Append(gm_items, Head(q))
               /\ aq'[GmBuffer] = Tail(q)
               /\ TotalDur(gm_items) < gm_rd
        /\ gm_pc # "idle" /\ gm_items' = gm_items /\ a_puts' = a_puts
               /\ a_gets' = a_gets
               => aq'[GmBuffer] = q
        /\ a_gets'[GmBuffer] # a_gets[GmBuffer] =>
               /\ q # <<>>
               /\ a_gets'[GmBuffer] = Append(a_gets[GmBuffer], Head(q))
               /\ aq'[GmBuffer] = Tail(q)
        /\ \A k \in 0..(Len(gm_items') - 1) :
               TotalDur(SubSeq(gm_items', 1, k)) < gm_rd'

DurationMatchesContent ==
    \A b \in BufferIds : a_duration[b] = TotalDur(aq[b])

\* C37: every chunk that push_audio had put on the queue when close() was
\* called has been yielded by the generator when the generator has ended.
AcceptedChunksYielded ==
    gs_gen = "done" =>
        \A i \in 1..Len(gs_before_close) :
            \E j \in 1..Len(gs_yielded) : gs_yielded[j] = gs_before_close[i]

\* the sessions of ss that hold chunk c on their audio_queue
HoldersOf(ss, c) ==
    {i \in 1..Len(ss) :
        \E k \in 1..Len(ss[i].audio_queue) : ss[i].audio_queue[k] = c}

OpenSessions(ss) == {i \in 1..Len(ss) : ~ss[i].closed}

\* the step is on_audio_frame handing a chunk to the orchestrator, which
\* reaches line 76 with it
ChunkForwarded == Len(s_vad') = Len(s_vad) + 1 /\ session_active'

\* C38, as stated: at most one session is open, and every forwarded chunk is
\* on the queue of exactly one session, the current one.
EveryChunkInCurrentSessionStep ==
    /\ Cardinality(OpenSessions(sessions')) <= 1
    /\ ChunkForwarded =>
           HoldersOf(sessions', Chunk(Len(s_vad'))) = {current_session'}

OneSessionAtATimeStep ==
    /\ Cardinality(OpenSessions(sessions')) <= 1
    /\ OpenSessions(sessions') \subseteq {current_session'}
    /\ ChunkForwarded =>
           /\ current_session' # 0
           /\ HoldersOf(sessions', Chunk(Len(s_vad'))) =
                  IF sessions'[current_session'].closed THEN {}
                  ELSE {current_session'}
    /\ \A m \in 1..Len(s_vad) :
           HoldersOf(sessions', Chunk(m)) = HoldersOf(sessions, Chunk(m))

BothKindsReceived == Len(ht_kind) = 2 /\ ht_kind[1] # ht_kind[2]

CancellationTerminates ==
    /\ [](cx_caught \subseteq {"loopCancelled"} /\ cx_stop_pc # "raised")
    /\ (cx_stop_pc = "awaiting") ~> (cx_pc = "done" /\ cx_stop_pc = "returned")

\* stop() was called while the audio task was in off-loop window processing
\* and has returned, the loop having caught the cancellation and ended
CancellationTerminatesWitness ==
    /\ cx_kind = "audio"
    /\ cx_stopped_at = "thread"
    /\ cx_caught = {"loopCancelled"}
    /\ cx_pc = "done"
    /\ cx_stop_pc = "returned"

====
